---- MODULE Spec2Model ----
(***************************************************************************)
(* The five hipBLAS client test drivers                                    *)
(*   testing_axpy_batched, testing_copy_strided_batched,                   *)
(*   testing_geam_batched, testing_rotmg, testing_tpsv_batched             *)
(* as one state machine.  A behaviour is one invocation of one driver on   *)
(* one argument record.  Every statement group of a driver is an action;   *)
(* pc is the position in the driver's body.  The GPU library is external:  *)
(* the status each library call returns is an input of the action that     *)
(* makes the call.  Data is abstract: a buffer holds, per batch, a token   *)
(* [gen, n, by] naming the generated array it stems from, how often the    *)
(* routine was applied to it, and who wrote it last.                       *)
(* HIP runtime calls (hipMemcpy, transfer_from, memcheck) are taken to     *)
(* succeed; the drivers only forward their error codes.                    *)
(* The arithmetic of the drivers (buffer sizes of copy_strided_batched and *)
(* geam_batched, the matrix construction of tpsv_batched) is modelled on   *)
(* numbers by the specifications SpecCopySizes, SpecGeamSizes,             *)
(* SpecTpsvDominant and SpecTpsvUnitDiag at the end of the module.         *)
(***************************************************************************)
EXTENDS Integers, Sequences, FiniteSets, TLC

VARIABLES driver, arg, pc, ret, handle, mem, loc, trace

vars == <<driver, arg, pc, ret, handle, mem, loc, trace>>

(***************************************************************************)
(* Bounds of the argument sets.                                            *)
(***************************************************************************)
MaxN == 1
MaxBatch == 2
MaxIters == 1

(***************************************************************************)
(* Status codes and pointer modes of the library.                          *)
(***************************************************************************)
HIPBLAS_STATUS_SUCCESS == "HIPBLAS_STATUS_SUCCESS"
HIPBLAS_STATUS_INVALID_VALUE == "HIPBLAS_STATUS_INVALID_VALUE"
HIPBLAS_STATUS_EXECUTION_FAILED == "HIPBLAS_STATUS_EXECUTION_FAILED"
HIPBLAS_POINTER_MODE_HOST == "HIPBLAS_POINTER_MODE_HOST"
HIPBLAS_POINTER_MODE_DEVICE == "HIPBLAS_POINTER_MODE_DEVICE"

\* Statuses a library call may return on well-formed arguments.
LibStatus ==
  {HIPBLAS_STATUS_SUCCESS, HIPBLAS_STATUS_INVALID_VALUE, HIPBLAS_STATUS_EXECUTION_FAILED}

\* Statuses the routine returns on degenerate sizes (N <= 0, batch_count <= 0,
\* incx = 0): a defined success or invalid-value status.
DegenerateStatus == {HIPBLAS_STATUS_SUCCESS, HIPBLAS_STATUS_INVALID_VALUE}

Drivers == {"axpy_batched", "copy_strided_batched", "geam_batched", "rotmg", "tpsv_batched"}

(***************************************************************************)
(* Arguments.  One record shape for all drivers; a field a driver never    *)
(* reads keeps its default.  cold_iters and iters are read only inside     *)
(* if(arg.timing), so they vary only with timing set.                      *)
(***************************************************************************)
ArgDefault ==
  [N |-> 1, M |-> 1, incx |-> 1, incy |-> 1, batch_count |-> 1,
   lda |-> 1, ldb |-> 1, ldc |-> 1, transA |-> "N", transB |-> "N",
   uplo |-> "U", diag |-> "N",
   unit_check |-> FALSE, norm_check |-> FALSE, timing |-> FALSE,
   cold_iters |-> 0, iters |-> 0]

SizeVals == -1 .. MaxN
BatchVals == -1 .. MaxBatch
IncVals == {-1, 0, 1}
LdVals == {MaxN - 1, MaxN}
TransVals == {"N", "T"}

Flagged(S) ==
  { [a EXCEPT !.unit_check = u, !.norm_check = n, !.timing = t,
              !.cold_iters = c, !.iters = i] :
      a \in S, u \in BOOLEAN, n \in BOOLEAN, t \in BOOLEAN,
      c \in 0 .. MaxIters, i \in 0 .. MaxIters }

WithFlags(S) == { a \in Flagged(S) : ~a.timing => (a.cold_iters = 0 /\ a.iters = 0) }

Args(d) ==
  CASE d = "axpy_batched" ->
         WithFlags({ [ArgDefault EXCEPT !.N = n, !.incx = ix, !.batch_count = bc] :
                       n \in SizeVals, ix \in {-1, 1}, bc \in BatchVals })
    [] d = "copy_strided_batched" ->
         WithFlags({ [ArgDefault EXCEPT !.N = n, !.incy = iy, !.batch_count = bc] :
                       n \in SizeVals, iy \in {-1, 1}, bc \in BatchVals })
    [] d = "geam_batched" ->
         WithFlags({ [ArgDefault EXCEPT !.M = m, !.N = n, !.lda = la, !.ldb = lb, !.ldc = lc,
                                        !.transA = ta, !.transB = tb, !.batch_count = bc] :
                       m \in SizeVals, n \in SizeVals, la \in LdVals, lb \in LdVals,
                       lc \in LdVals, ta \in TransVals, tb \in TransVals, bc \in BatchVals })
    [] d = "rotmg" -> WithFlags({ArgDefault})
    [] d = "tpsv_batched" ->
         WithFlags({ [ArgDefault EXCEPT !.N = n, !.incx = ix, !.batch_count = bc,
                                        !.uplo = ul, !.diag = dg] :
                       n \in SizeVals, ix \in IncVals, bc \in BatchVals,
                       ul \in {"U", "L"}, dg \in {"N", "U"} })

(***************************************************************************)
(* Buffers of each driver (host_vector, host_batch_vector, device_vector,  *)
(* device_batch_vector objects).                                           *)
(***************************************************************************)
Buffers(d) ==
  CASE d = "axpy_batched" ->
         {"hx", "hy_host", "hy_device", "hx_cpu", "hy_cpu",
          "dx", "dy_host", "dy_device", "d_alpha"}
    [] d = "copy_strided_batched" -> {"hx", "hy", "hx_cpu", "hy_cpu", "dx", "dy"}
    [] d = "geam_batched" ->
         {"dA", "dB", "dC", "d_alpha", "d_beta", "hA", "hB", "hC1", "hC2", "hC_copy"}
    [] d = "rotmg" -> {"hparams", "cparams", "hparams_d", "dparams"}
    [] d = "tpsv_batched" ->
         {"hA", "hAP", "AAT", "hb", "hx", "hx_or_b_1", "hx_or_b_2", "cpu_x_or_b",
          "dAP", "dx_or_b"}

(***************************************************************************)
(* Abstract data.                                                          *)
(***************************************************************************)
Unalloc == [st |-> "unalloc", val |-> <<>>]

Uninit(k) == [i \in 1 .. k |-> [gen |-> "uninit", n |-> 0, by |-> "none"]]

\* hipblas_init_vector: generated data.
Gen(name, k) == [i \in 1 .. k |-> [gen |-> name, n |-> 0, by |-> "init"]]

\* The routine applied to every batch of v by writer w.
Applied(v, w) == [i \in DOMAIN v |-> [gen |-> v[i].gen, n |-> v[i].n + 1, by |-> w]]

\* The routine applied to batch b of v only.
AppliedAt(v, b, w) ==
  [i \in DOMAIN v |-> IF i = b THEN [gen |-> v[i].gen, n |-> v[i].n + 1, by |-> w] ELSE v[i]]

\* The copy routine: every batch of the destination becomes the source's data.
Copied(x, w) == [i \in DOMAIN x |-> [gen |-> x[i].gen, n |-> x[i].n, by |-> w]]

CopiedAt(y, x, b, w) ==
  [i \in DOMAIN y |-> IF i = b THEN [gen |-> x[i].gen, n |-> x[i].n, by |-> w] ELSE y[i]]

\* Constructors allocate: the buffers in names become live and uninitialised.
Alloc(m, names, k) ==
  [x \in DOMAIN m |-> IF x \in names THEN [st |-> "live", val |-> Uninit(k)] ELSE m[x]]

Put(m, name, v) == [m EXCEPT ![name].val = v]

(***************************************************************************)
(* Events: the history of what the invocation did.                         *)
(***************************************************************************)
E0 ==
  [kind |-> "", phase |-> "", hid |-> 0, hlive |-> FALSE, mode |-> "", data |-> "",
   scalar |-> "", ops |-> <<>>, st |-> "", exp |-> "", bufs |-> <<>>,
   par |-> <<>>]

\* A call of the routine under test on handle h.
RoutineEv(phase, h, data, scalar, ops, st, exp) ==
  [E0 EXCEPT !.kind = "routine", !.phase = phase, !.hid = h.id,
             !.hlive = (h.state = "live"), !.mode = h.mode, !.data = data,
             !.scalar = scalar, !.ops = ops, !.st = st, !.exp = exp]

\* Another library call (hipblasSetPointerMode, hipblasGetStream) on handle h.
LibEv(kind, phase, h, m, st) ==
  [E0 EXCEPT !.kind = kind, !.phase = phase, !.hid = h.id,
             !.hlive = (h.state = "live"), !.mode = m, !.st = st,
             !.exp = HIPBLAS_STATUS_SUCCESS]

\* A host-side event: allocation, generation, transfer, reference call, check.
HostEv(kind, phase, bufs, ops) ==
  [E0 EXCEPT !.kind = kind, !.phase = phase, !.bufs = bufs, !.ops = ops]

(***************************************************************************)
(* Scopes.  hipblasLocalHandle and the vector classes are scoped objects:  *)
(* leaving the function destroys the handle and frees every live buffer.   *)
(***************************************************************************)
NoHandle == [state |-> "none", mode |-> "", id |-> 0]

\* hipblasLocalHandle handle(arg): a new handle in the library's default mode.
hipblasLocalHandle(h) == [state |-> "live", mode |-> "DEFAULT", id |-> h.id + 1]

DestroyHandle(h) == IF h.state = "live" THEN [h EXCEPT !.state = "destroyed"] ELSE h

FreeAll(m) ==
  [x \in DOMAIN m |-> IF m[x].st = "live" THEN [m[x] EXCEPT !.st = "freed"] ELSE m[x]]

hipblasSetPointerMode(h, m) == [h EXCEPT !.mode = m]

(***************************************************************************)
(* Control.                                                                *)
(***************************************************************************)
Goto(next, h, m, l, evs) ==
  /\ pc' = next
  /\ handle' = h
  /\ mem' = m
  /\ loc' = l
  /\ trace' = trace \o evs
  /\ UNCHANGED <<driver, arg, ret>>

\* return st: the locals go out of scope.
Return(st, h, m, l, evs) ==
  /\ pc' = "done"
  /\ ret' = st
  /\ handle' = DestroyHandle(h)
  /\ mem' = FreeAll(m)
  /\ loc' = l
  /\ trace' = trace \o evs
  /\ UNCHANGED <<driver, arg>>

\* CHECK_HIPBLAS_ERROR(call): a status other than success is returned at once.
CHECK_HIPBLAS_ERROR(st, next, h, m, l, evs) ==
  IF st # HIPBLAS_STATUS_SUCCESS THEN Return(st, h, m, l, evs) ELSE Goto(next, h, m, l, evs)

\* if(arg.unit_check || arg.norm_check) { ... } if(arg.timing) { ... } return
AfterCheck == IF arg.timing THEN "timing" ELSE "return"

AfterBuild == IF arg.unit_check \/ arg.norm_check THEN "check" ELSE AfterCheck

Loc0 ==
  [b |-> 0, iter |-> 0, gpu_time_used |-> "uninit",
   hipblas_error_host |-> "uninit", hipblas_error_device |-> "uninit",
   hipblas_error |-> "uninit", cumulative_hipblas_error |-> "uninit"]

\* gpu_time_used = get_time_us_sync(stream) - gpu_time_used
Elapsed(t) ==
  IF t = "start" THEN "elapsed" ELSE IF t = "zero" THEN "absolute" ELSE "indeterminate"

Init ==
  \E d \in Drivers :
    \E a \in Args(d) :
      /\ driver = d
      /\ arg = a
      /\ pc = "start"
      /\ ret = "none"
      /\ handle = NoHandle
      /\ mem = [x \in Buffers(d) |-> Unalloc]
      /\ loc = Loc0
      /\ trace = <<>>

(***************************************************************************)
(* testing_axpy_batched                                                    *)
(***************************************************************************)
axpy_CreateHandle ==
  /\ driver = "axpy_batched" /\ pc = "start"
  /\ Goto("sanity", hipblasLocalHandle(handle), mem, loc, <<>>)

\* Faulty variant: the quick return taken for negative sizes only.
axpy_quick_return_strict == arg.N < 0 \/ arg.batch_count < 0

axpy_quick_return == arg.N <= 0 \/ arg.batch_count <= 0

axpy_QuickReturn ==
  /\ driver = "axpy_batched" /\ pc = "sanity"
  /\ axpy_quick_return
  /\ \E st \in DegenerateStatus :
       CHECK_HIPBLAS_ERROR(st, "quick_return", handle, mem, loc,
         <<RoutineEv("quick", handle, "null", "null", <<>>, st, HIPBLAS_STATUS_SUCCESS)>>)

axpy_QuickReturnSuccess ==
  /\ driver = "axpy_batched" /\ pc = "quick_return"
  /\ Return(HIPBLAS_STATUS_SUCCESS, handle, mem, loc, <<>>)

axpy_Alloc ==
  /\ driver = "axpy_batched" /\ pc = "sanity"
  /\ ~axpy_quick_return
  /\ LET m1 == Alloc(mem, {"hx", "hy_host", "hy_device", "hx_cpu", "hy_cpu",
                           "dx", "dy_host", "dy_device"}, arg.batch_count)
         m2 == Alloc(m1, {"d_alpha"}, 1)
     IN Goto("init", handle, m2, loc,
             <<HostEv("alloc", "build",
                      <<"hx", "hy_host", "hy_device", "hx_cpu", "hy_cpu",
                        "dx", "dy_host", "dy_device", "d_alpha">>, <<>>)>>)

axpy_Init ==
  /\ driver = "axpy_batched" /\ pc = "init"
  /\ LET m1 == Put(mem, "hx", Gen("hx", arg.batch_count))
         m2 == Put(m1, "hy_host", Gen("hy", arg.batch_count))
         m3 == Put(m2, "hy_device", m2["hy_host"].val)
         m4 == Put(m3, "hx_cpu", m3["hx"].val)
         m5 == Put(m4, "hy_cpu", m4["hy_host"].val)
     IN Goto("upload", handle, m5, loc,
             <<HostEv("init", "build", <<"hx", "hy_host">>, <<>>)>>)

axpy_Upload ==
  /\ driver = "axpy_batched" /\ pc = "upload"
  /\ LET m1 == Put(mem, "dx", mem["hx"].val)
         m2 == Put(m1, "dy_host", m1["hy_host"].val)
         m3 == Put(m2, "dy_device", m2["hy_device"].val)
         m4 == Put(m3, "d_alpha", Gen("alpha", 1))
     IN Goto(AfterBuild, handle, m4, loc,
             <<HostEv("upload", "build", <<"dx", "dy_host", "dy_device", "d_alpha">>, <<>>)>>)

axpy_SetModeDevice ==
  /\ driver = "axpy_batched" /\ pc = "check"
  /\ \E st \in LibStatus :
       CHECK_HIPBLAS_ERROR(st, "call_device",
         hipblasSetPointerMode(handle, HIPBLAS_POINTER_MODE_DEVICE), mem, loc,
         <<LibEv("setmode", "check", handle, HIPBLAS_POINTER_MODE_DEVICE, st)>>)

axpy_CallDevice ==
  /\ driver = "axpy_batched" /\ pc = "call_device"
  /\ \E st \in LibStatus :
       CHECK_HIPBLAS_ERROR(st, "set_host", handle,
         Put(mem, "dy_device", Applied(mem["dy_device"].val, handle.mode)), loc,
         <<RoutineEv("check", handle, "device", "device",
                     <<mem["dx"].val, mem["dy_device"].val>>, st, HIPBLAS_STATUS_SUCCESS)>>)

axpy_SetModeHost ==
  /\ driver = "axpy_batched" /\ pc = "set_host"
  /\ \E st \in LibStatus :
       CHECK_HIPBLAS_ERROR(st, "call_host",
         hipblasSetPointerMode(handle, HIPBLAS_POINTER_MODE_HOST), mem, loc,
         <<LibEv("setmode", "check", handle, HIPBLAS_POINTER_MODE_HOST, st)>>)

\* Faulty variant: the host-mode call writes the buffer of the device-mode call.
axpy_CallHost_same_buffer ==
  /\ driver = "axpy_batched" /\ pc = "call_host"
  /\ \E st \in LibStatus :
       CHECK_HIPBLAS_ERROR(st, "download", handle,
         Put(mem, "dy_device", Applied(mem["dy_device"].val, handle.mode)), loc,
         <<RoutineEv("check", handle, "device", "host",
                     <<mem["dx"].val, mem["dy_device"].val>>, st, HIPBLAS_STATUS_SUCCESS)>>)

axpy_CallHost ==
  /\ driver = "axpy_batched" /\ pc = "call_host"
  /\ \E st \in LibStatus :
       CHECK_HIPBLAS_ERROR(st, "download", handle,
         Put(mem, "dy_host", Applied(mem["dy_host"].val, handle.mode)), loc,
         <<RoutineEv("check", handle, "device", "host",
                     <<mem["dx"].val, mem["dy_host"].val>>, st, HIPBLAS_STATUS_SUCCESS)>>)

axpy_Download ==
  /\ driver = "axpy_batched" /\ pc = "download"
  /\ LET m1 == Put(mem, "hy_host", mem["dy_host"].val)
         m2 == Put(m1, "hy_device", m1["dy_device"].val)
     IN Goto("reference", handle, m2, [loc EXCEPT !.b = 0],
             <<HostEv("download", "check", <<"hy_host", "hy_device">>, <<>>)>>)

\* Faulty variant: the reference loop stops one batch early.
axpy_Reference_short ==
  /\ driver = "axpy_batched" /\ pc = "reference"
  /\ IF loc.b < arg.batch_count - 1
       THEN Goto("reference", handle,
                 Put(mem, "hy_cpu", AppliedAt(mem["hy_cpu"].val, loc.b + 1, "cpu")),
                 [loc EXCEPT !.b = loc.b + 1],
                 <<HostEv("ref", "check", <<"hx_cpu", "hy_cpu">>,
                          <<<<mem["hx_cpu"].val[loc.b + 1]>>, <<mem["hy_cpu"].val[loc.b + 1]>>>>)>>)
       ELSE Goto("unit_check", handle, mem, loc, <<>>)

\* for(int b = 0; b < batch_count; b++) cblas_axpy(...): one iteration, or the exit.
axpy_Reference ==
  /\ driver = "axpy_batched" /\ pc = "reference"
  /\ IF loc.b < arg.batch_count
       THEN Goto("reference", handle,
                 Put(mem, "hy_cpu", AppliedAt(mem["hy_cpu"].val, loc.b + 1, "cpu")),
                 [loc EXCEPT !.b = loc.b + 1],
                 <<HostEv("ref", "check", <<"hx_cpu", "hy_cpu">>,
                          <<<<mem["hx_cpu"].val[loc.b + 1]>>, <<mem["hy_cpu"].val[loc.b + 1]>>>>)>>)
       ELSE Goto("unit_check", handle, mem, loc, <<>>)

\* Faulty variant: the host result is norm-checked ahead of the unit checks.
axpy_UnitCheck_after_norm ==
  /\ driver = "axpy_batched" /\ pc = "unit_check"
  /\ Goto("norm_check", handle, mem, loc,
          IF arg.unit_check
            THEN <<HostEv("norm", "check", <<"hy_cpu", "hy_host">>,
                          <<mem["hy_cpu"].val, mem["hy_host"].val>>),
                   HostEv("unit", "check", <<"hy_cpu", "hy_host">>,
                          <<mem["hy_cpu"].val, mem["hy_host"].val>>),
                   HostEv("unit", "check", <<"hy_cpu", "hy_device">>,
                          <<mem["hy_cpu"].val, mem["hy_device"].val>>)>>
            ELSE <<>>)

axpy_UnitCheck ==
  /\ driver = "axpy_batched" /\ pc = "unit_check"
  /\ Goto("norm_check", handle, mem, loc,
          IF arg.unit_check
            THEN <<HostEv("unit", "check", <<"hy_cpu", "hy_host">>,
                          <<mem["hy_cpu"].val, mem["hy_host"].val>>),
                   HostEv("unit", "check", <<"hy_cpu", "hy_device">>,
                          <<mem["hy_cpu"].val, mem["hy_device"].val>>)>>
            ELSE <<>>)

axpy_NormCheck ==
  /\ driver = "axpy_batched" /\ pc = "norm_check"
  /\ IF arg.norm_check
       THEN Goto(AfterCheck, handle, mem,
                 [loc EXCEPT !.hipblas_error_host = "norm", !.hipblas_error_device = "norm"],
                 <<HostEv("norm", "check", <<"hy_cpu", "hy_host">>,
                          <<mem["hy_cpu"].val, mem["hy_host"].val>>),
                   HostEv("norm", "check", <<"hy_cpu", "hy_device">>,
                          <<mem["hy_cpu"].val, mem["hy_device"].val>>)>>)
       ELSE Goto(AfterCheck, handle, mem, loc, <<>>)

axpy_GetStream ==
  /\ driver = "axpy_batched" /\ pc = "timing"
  /\ \E st \in LibStatus :
       CHECK_HIPBLAS_ERROR(st, "timing_mode", handle, mem, loc,
                           <<LibEv("getstream", "timing", handle, handle.mode, st)>>)

\* Faulty variant: the timing phase selects HOST pointer mode.
axpy_TimingSetMode_host ==
  /\ driver = "axpy_batched" /\ pc = "timing_mode"
  /\ \E st \in LibStatus :
       CHECK_HIPBLAS_ERROR(st, "timing_loop",
         hipblasSetPointerMode(handle, HIPBLAS_POINTER_MODE_HOST), mem,
         [loc EXCEPT !.iter = 0],
         <<LibEv("setmode", "timing", handle, HIPBLAS_POINTER_MODE_HOST, st)>>)

axpy_TimingSetMode ==
  /\ driver = "axpy_batched" /\ pc = "timing_mode"
  /\ \E st \in LibStatus :
       CHECK_HIPBLAS_ERROR(st, "timing_loop",
         hipblasSetPointerMode(handle, HIPBLAS_POINTER_MODE_DEVICE), mem,
         [loc EXCEPT !.iter = 0],
         <<LibEv("setmode", "timing", handle, HIPBLAS_POINTER_MODE_DEVICE, st)>>)

\* One iteration of the timing loop: the start stamp when iter == cold_iters, the call.
axpy_TimingIter ==
  /\ driver = "axpy_batched" /\ pc = "timing_loop"
  /\ loc.iter < arg.cold_iters + arg.iters
  /\ LET stamp == loc.iter = arg.cold_iters
         l1 == IF stamp THEN [loc EXCEPT !.gpu_time_used = "start"] ELSE loc
         tev == IF stamp THEN <<HostEv("stamp", "timing", <<>>, <<>>)>> ELSE <<>>
     IN \E st \in LibStatus :
          CHECK_HIPBLAS_ERROR(st, "timing_loop", handle,
            Put(mem, "dy_device", Applied(mem["dy_device"].val, handle.mode)),
            [l1 EXCEPT !.iter = loc.iter + 1],
            tev \o <<RoutineEv("timing", handle, "device", "device",
                               <<mem["dx"].val, mem["dy_device"].val>>, st,
                               HIPBLAS_STATUS_SUCCESS)>>)

axpy_Log ==
  /\ driver = "axpy_batched" /\ pc = "timing_loop"
  /\ ~(loc.iter < arg.cold_iters + arg.iters)
  /\ Goto("return", handle, mem,
          [loc EXCEPT !.gpu_time_used = Elapsed(loc.gpu_time_used)],
          <<HostEv("stamp", "timing", <<>>, <<>>),
            HostEv("log", "timing",
                   <<Elapsed(loc.gpu_time_used), loc.hipblas_error_host,
                     loc.hipblas_error_device>>, <<>>)>>)

axpy_Return ==
  /\ driver = "axpy_batched" /\ pc = "return"
  /\ Return(HIPBLAS_STATUS_SUCCESS, handle, mem, loc, <<>>)

axpy_Next ==
  \/ axpy_CreateHandle \/ axpy_QuickReturn \/ axpy_QuickReturnSuccess
  \/ axpy_Alloc \/ axpy_Init \/ axpy_Upload
  \/ axpy_SetModeDevice \/ axpy_CallDevice \/ axpy_SetModeHost \/ axpy_CallHost
  \/ axpy_Download \/ axpy_Reference \/ axpy_UnitCheck \/ axpy_NormCheck
  \/ axpy_GetStream \/ axpy_TimingSetMode \/ axpy_TimingIter \/ axpy_Log \/ axpy_Return

(***************************************************************************)
(* testing_copy_strided_batched                                            *)
(***************************************************************************)
copy_CreateHandle ==
  /\ driver = "copy_strided_batched" /\ pc = "start"
  /\ Goto("sanity", hipblasLocalHandle(handle), mem, loc, <<>>)

copy_quick_return == arg.N <= 0 \/ arg.batch_count <= 0

\* Faulty variant: negative sizes are expected to give invalid-value, as in tpsv_batched.
copy_QuickReturn_expecting_invalid ==
  /\ driver = "copy_strided_batched" /\ pc = "sanity"
  /\ copy_quick_return
  /\ \E st \in DegenerateStatus :
       Return(st, handle, mem, loc,
              <<RoutineEv("quick", handle, "null", "none", <<>>, st,
                          IF arg.N < 0 \/ arg.batch_count < 0
                            THEN HIPBLAS_STATUS_INVALID_VALUE
                            ELSE HIPBLAS_STATUS_SUCCESS)>>)

copy_QuickReturn ==
  /\ driver = "copy_strided_batched" /\ pc = "sanity"
  /\ copy_quick_return
  /\ \E st \in DegenerateStatus :
       CHECK_HIPBLAS_ERROR(st, "quick_return", handle, mem, loc,
         <<RoutineEv("quick", handle, "null", "none", <<>>, st, HIPBLAS_STATUS_SUCCESS)>>)

copy_QuickReturnSuccess ==
  /\ driver = "copy_strided_batched" /\ pc = "quick_return"
  /\ Return(HIPBLAS_STATUS_SUCCESS, handle, mem, loc, <<>>)

copy_Alloc ==
  /\ driver = "copy_strided_batched" /\ pc = "sanity"
  /\ ~copy_quick_return
  /\ Goto("init", handle,
          Alloc(mem, {"hx", "hy", "hx_cpu", "hy_cpu", "dx", "dy"}, arg.batch_count),
          [loc EXCEPT !.gpu_time_used = "zero", !.hipblas_error = "zero"],
          <<HostEv("alloc", "build", <<"hx", "hy", "hx_cpu", "hy_cpu", "dx", "dy">>, <<>>)>>)

copy_Init ==
  /\ driver = "copy_strided_batched" /\ pc = "init"
  /\ LET m1 == Put(mem, "hx", Gen("hx", arg.batch_count))
         m2 == Put(m1, "hy", Gen("hy", arg.batch_count))
         m3 == Put(m2, "hx_cpu", m2["hx"].val)
         m4 == Put(m3, "hy_cpu", m3["hy"].val)
     IN Goto("upload", handle, m4, loc, <<HostEv("init", "build", <<"hx", "hy">>, <<>>)>>)

copy_Upload ==
  /\ driver = "copy_strided_batched" /\ pc = "upload"
  /\ LET m1 == Put(mem, "dx", mem["hx"].val)
         m2 == Put(m1, "dy", m1["hy"].val)
     IN Goto(AfterBuild, handle, m2, loc,
             <<HostEv("upload", "build", <<"dx", "dy">>, <<>>)>>)

copy_Call ==
  /\ driver = "copy_strided_batched" /\ pc = "check"
  /\ \E st \in LibStatus :
       CHECK_HIPBLAS_ERROR(st, "download", handle,
         Put(mem, "dy", Copied(mem["dx"].val, handle.mode)), loc,
         <<RoutineEv("check", handle, "device", "none",
                     <<mem["dx"].val, mem["dy"].val>>, st, HIPBLAS_STATUS_SUCCESS)>>)

copy_Download ==
  /\ driver = "copy_strided_batched" /\ pc = "download"
  /\ LET m1 == Put(mem, "hx", mem["dx"].val)
         m2 == Put(m1, "hy", m1["dy"].val)
     IN Goto("reference", handle, m2, [loc EXCEPT !.b = 0],
             <<HostEv("download", "check", <<"hx", "hy">>, <<>>)>>)

copy_Reference ==
  /\ driver = "copy_strided_batched" /\ pc = "reference"
  /\ IF loc.b < arg.batch_count
       THEN Goto("reference", handle,
                 Put(mem, "hy_cpu",
                     CopiedAt(mem["hy_cpu"].val, mem["hx_cpu"].val, loc.b + 1, "cpu")),
                 [loc EXCEPT !.b = loc.b + 1],
                 <<HostEv("ref", "check", <<"hx_cpu", "hy_cpu">>,
                          <<<<mem["hx_cpu"].val[loc.b + 1]>>, <<mem["hy_cpu"].val[loc.b + 1]>>>>)>>)
       ELSE Goto("unit_check", handle, mem, loc, <<>>)

copy_UnitCheck ==
  /\ driver = "copy_strided_batched" /\ pc = "unit_check"
  /\ Goto("norm_check", handle, mem, loc,
          IF arg.unit_check
            THEN <<HostEv("unit", "check", <<"hy_cpu", "hy">>,
                          <<mem["hy_cpu"].val, mem["hy"].val>>)>>
            ELSE <<>>)

copy_NormCheck ==
  /\ driver = "copy_strided_batched" /\ pc = "norm_check"
  /\ IF arg.norm_check
       THEN Goto(AfterCheck, handle, mem, [loc EXCEPT !.hipblas_error = "norm"],
                 <<HostEv("norm", "check", <<"hy_cpu", "hy">>,
                          <<mem["hy_cpu"].val, mem["hy"].val>>)>>)
       ELSE Goto(AfterCheck, handle, mem, loc, <<>>)

copy_GetStream ==
  /\ driver = "copy_strided_batched" /\ pc = "timing"
  /\ \E st \in LibStatus :
       CHECK_HIPBLAS_ERROR(st, "timing_loop", handle, mem, [loc EXCEPT !.iter = 0],
                           <<LibEv("getstream", "timing", handle, handle.mode, st)>>)

copy_TimingIter ==
  /\ driver = "copy_strided_batched" /\ pc = "timing_loop"
  /\ loc.iter < arg.cold_iters + arg.iters
  /\ LET stamp == loc.iter = arg.cold_iters
         l1 == IF stamp THEN [loc EXCEPT !.gpu_time_used = "start"] ELSE loc
         tev == IF stamp THEN <<HostEv("stamp", "timing", <<>>, <<>>)>> ELSE <<>>
     IN \E st \in LibStatus :
          CHECK_HIPBLAS_ERROR(st, "timing_loop", handle,
            Put(mem, "dy", Copied(mem["dx"].val, handle.mode)),
            [l1 EXCEPT !.iter = loc.iter + 1],
            tev \o <<RoutineEv("timing", handle, "device", "none",
                               <<mem["dx"].val, mem["dy"].val>>, st,
                               HIPBLAS_STATUS_SUCCESS)>>)

copy_Log ==
  /\ driver = "copy_strided_batched" /\ pc = "timing_loop"
  /\ ~(loc.iter < arg.cold_iters + arg.iters)
  /\ Goto("return", handle, mem,
          [loc EXCEPT !.gpu_time_used = Elapsed(loc.gpu_time_used)],
          <<HostEv("stamp", "timing", <<>>, <<>>),
            HostEv("log", "timing",
                   <<Elapsed(loc.gpu_time_used), loc.hipblas_error>>, <<>>)>>)

copy_Return ==
  /\ driver = "copy_strided_batched" /\ pc = "return"
  /\ Return(HIPBLAS_STATUS_SUCCESS, handle, mem, loc, <<>>)

copy_Next ==
  \/ copy_CreateHandle \/ copy_QuickReturn \/ copy_QuickReturnSuccess
  \/ copy_Alloc \/ copy_Init \/ copy_Upload \/ copy_Call \/ copy_Download
  \/ copy_Reference \/ copy_UnitCheck \/ copy_NormCheck
  \/ copy_GetStream \/ copy_TimingIter \/ copy_Log \/ copy_Return

(***************************************************************************)
(* testing_geam_batched                                                    *)
(***************************************************************************)
HIPBLAS_OP_N == "N"

A_row == IF arg.transA = HIPBLAS_OP_N THEN arg.M ELSE arg.N

A_col == IF arg.transA = HIPBLAS_OP_N THEN arg.N ELSE arg.M

B_row == IF arg.transB = HIPBLAS_OP_N THEN arg.M ELSE arg.N

B_col == IF arg.transB = HIPBLAS_OP_N THEN arg.N ELSE arg.M

geam_invalid_size ==
  \/ arg.M <= 0 \/ arg.N <= 0
  \/ arg.lda < A_row \/ arg.ldb < B_row \/ arg.ldc < arg.M
  \/ arg.batch_count < 0

\* Faulty variant: the batch_count == 0 return is tested first.
geam_ArgCheck_batch_first ==
  /\ driver = "geam_batched" /\ pc = "start"
  /\ IF arg.batch_count = 0
       THEN Return(HIPBLAS_STATUS_SUCCESS, handle, mem, loc, <<>>)
       ELSE IF geam_invalid_size
              THEN Return(HIPBLAS_STATUS_INVALID_VALUE, handle, mem, loc, <<>>)
              ELSE Goto("handle", handle, mem, loc, <<>>)

\* The two early returns: no handle exists yet, nothing is allocated.
geam_ArgCheck ==
  /\ driver = "geam_batched" /\ pc = "start"
  /\ IF geam_invalid_size
       THEN Return(HIPBLAS_STATUS_INVALID_VALUE, handle, mem, loc, <<>>)
       ELSE IF arg.batch_count = 0
              THEN Return(HIPBLAS_STATUS_SUCCESS, handle, mem, loc, <<>>)
              ELSE Goto("handle", handle, mem, loc, <<>>)

geam_CreateHandle ==
  /\ driver = "geam_batched" /\ pc = "handle"
  /\ Goto("alloc", hipblasLocalHandle(handle), mem, loc, <<>>)

geam_Alloc ==
  /\ driver = "geam_batched" /\ pc = "alloc"
  /\ LET m1 == Alloc(mem, {"dA", "dB", "dC", "hA", "hB", "hC1", "hC2", "hC_copy"},
                     arg.batch_count)
         m2 == Alloc(m1, {"d_alpha", "d_beta"}, 1)
     IN Goto("init", handle, m2, loc,
             <<HostEv("alloc", "build",
                      <<"dA", "dB", "dC", "d_alpha", "d_beta",
                        "hA", "hB", "hC1", "hC2", "hC_copy">>, <<>>)>>)

geam_Init ==
  /\ driver = "geam_batched" /\ pc = "init"
  /\ LET m1 == Put(mem, "hA", Gen("hA", arg.batch_count))
         m2 == Put(m1, "hB", Gen("hB", arg.batch_count))
         m3 == Put(m2, "hC1", Gen("hC", arg.batch_count))
         m4 == Put(m3, "hC2", m3["hC1"].val)
         m5 == Put(m4, "hC_copy", m4["hC1"].val)
     IN Goto("upload", handle, m5, loc,
             <<HostEv("init", "build", <<"hA", "hB", "hC1">>, <<>>)>>)

geam_Upload ==
  /\ driver = "geam_batched" /\ pc = "upload"
  /\ LET m1 == Put(mem, "dA", mem["hA"].val)
         m2 == Put(m1, "dB", m1["hB"].val)
         m3 == Put(m2, "dC", m2["hC1"].val)
         m4 == Put(m3, "d_alpha", Gen("alpha", 1))
         m5 == Put(m4, "d_beta", Gen("beta", 1))
     IN Goto(AfterBuild, handle, m5, loc,
             <<HostEv("upload", "build", <<"dA", "dB", "dC", "d_alpha", "d_beta">>, <<>>)>>)

\* Faulty variant: the first block sets the device pointer mode.
geam_SetModeHost_device ==
  /\ driver = "geam_batched" /\ pc = "check"
  /\ \E st \in LibStatus :
       CHECK_HIPBLAS_ERROR(st, "call_host",
         hipblasSetPointerMode(handle, HIPBLAS_POINTER_MODE_DEVICE), mem, loc,
         <<LibEv("setmode", "check", handle, HIPBLAS_POINTER_MODE_DEVICE, st)>>)

geam_SetModeHost ==
  /\ driver = "geam_batched" /\ pc = "check"
  /\ \E st \in LibStatus :
       CHECK_HIPBLAS_ERROR(st, "call_host",
         hipblasSetPointerMode(handle, HIPBLAS_POINTER_MODE_HOST), mem, loc,
         <<LibEv("setmode", "check", handle, HIPBLAS_POINTER_MODE_HOST, st)>>)

geam_CallHost ==
  /\ driver = "geam_batched" /\ pc = "call_host"
  /\ \E st \in LibStatus :
       CHECK_HIPBLAS_ERROR(st, "download_host", handle,
         Put(mem, "dC", Applied(mem["dC"].val, handle.mode)), loc,
         <<RoutineEv("check", handle, "device", "host",
                     <<mem["dA"].val, mem["dB"].val, mem["dC"].val>>, st,
                     HIPBLAS_STATUS_SUCCESS)>>)

geam_DownloadHost ==
  /\ driver = "geam_batched" /\ pc = "download_host"
  /\ Goto("reupload", handle, Put(mem, "hC1", mem["dC"].val), loc,
          <<HostEv("download", "check", <<"hC1">>, <<>>)>>)

\* Faulty variant: dC is not loaded again before the second call.
geam_ReuploadC_missing ==
  /\ driver = "geam_batched" /\ pc = "reupload"
  /\ Goto("set_device", handle, mem, loc, <<>>)

\* dC.transfer_from(hC2): the device matrix gets the initial C again.
geam_ReuploadC ==
  /\ driver = "geam_batched" /\ pc = "reupload"
  /\ Goto("set_device", handle, Put(mem, "dC", mem["hC2"].val), loc,
          <<HostEv("upload", "check", <<"dC">>, <<>>)>>)

geam_SetModeDevice ==
  /\ driver = "geam_batched" /\ pc = "set_device"
  /\ \E st \in LibStatus :
       CHECK_HIPBLAS_ERROR(st, "call_device",
         hipblasSetPointerMode(handle, HIPBLAS_POINTER_MODE_DEVICE), mem, loc,
         <<LibEv("setmode", "check", handle, HIPBLAS_POINTER_MODE_DEVICE, st)>>)

geam_CallDevice ==
  /\ driver = "geam_batched" /\ pc = "call_device"
  /\ \E st \in LibStatus :
       CHECK_HIPBLAS_ERROR(st, "download_device", handle,
         Put(mem, "dC", Applied(mem["dC"].val, handle.mode)), loc,
         <<RoutineEv("check", handle, "device", "device",
                     <<mem["dA"].val, mem["dB"].val, mem["dC"].val>>, st,
                     HIPBLAS_STATUS_SUCCESS)>>)

geam_DownloadDevice ==
  /\ driver = "geam_batched" /\ pc = "download_device"
  /\ Goto("reference", handle, Put(mem, "hC2", mem["dC"].val), [loc EXCEPT !.b = 0],
          <<HostEv("download", "check", <<"hC2">>, <<>>)>>)

geam_Reference ==
  /\ driver = "geam_batched" /\ pc = "reference"
  /\ IF loc.b < arg.batch_count
       THEN Goto("reference", handle,
                 Put(mem, "hC_copy", AppliedAt(mem["hC_copy"].val, loc.b + 1, "cpu")),
                 [loc EXCEPT !.b = loc.b + 1],
                 <<HostEv("ref", "check", <<"hA", "hB", "hC_copy">>,
                          <<<<mem["hA"].val[loc.b + 1]>>, <<mem["hB"].val[loc.b + 1]>>,
                            <<mem["hC_copy"].val[loc.b + 1]>>>>)>>)
       ELSE Goto("unit_check", handle, mem, loc, <<>>)

geam_UnitCheck ==
  /\ driver = "geam_batched" /\ pc = "unit_check"
  /\ Goto("norm_check", handle, mem, loc,
          IF arg.unit_check
            THEN <<HostEv("unit", "check", <<"hC_copy", "hC1">>,
                          <<mem["hC_copy"].val, mem["hC1"].val>>),
                   HostEv("unit", "check", <<"hC_copy", "hC2">>,
                          <<mem["hC_copy"].val, mem["hC2"].val>>)>>
            ELSE <<>>)

geam_NormCheck ==
  /\ driver = "geam_batched" /\ pc = "norm_check"
  /\ IF arg.norm_check
       THEN Goto(AfterCheck, handle, mem,
                 [loc EXCEPT !.hipblas_error_host = "norm", !.hipblas_error_device = "norm"],
                 <<HostEv("norm", "check", <<"hC_copy", "hC1">>,
                          <<mem["hC_copy"].val, mem["hC1"].val>>),
                   HostEv("norm", "check", <<"hC_copy", "hC2">>,
                          <<mem["hC_copy"].val, mem["hC2"].val>>)>>)
       ELSE Goto(AfterCheck, handle, mem, loc, <<>>)

\* Faulty variant: the timing block declares a handle of its own.
geam_GetStream_second_handle ==
  /\ driver = "geam_batched" /\ pc = "timing"
  /\ \E st \in LibStatus :
       CHECK_HIPBLAS_ERROR(st, "timing_mode", hipblasLocalHandle(handle), mem, loc,
                           <<LibEv("getstream", "timing", hipblasLocalHandle(handle),
                                   "DEFAULT", st)>>)

geam_GetStream ==
  /\ driver = "geam_batched" /\ pc = "timing"
  /\ \E st \in LibStatus :
       CHECK_HIPBLAS_ERROR(st, "timing_mode", handle, mem, loc,
                           <<LibEv("getstream", "timing", handle, handle.mode, st)>>)

geam_TimingSetMode ==
  /\ driver = "geam_batched" /\ pc = "timing_mode"
  /\ \E st \in LibStatus :
       CHECK_HIPBLAS_ERROR(st, "timing_loop",
         hipblasSetPointerMode(handle, HIPBLAS_POINTER_MODE_DEVICE), mem,
         [loc EXCEPT !.iter = 0],
         <<LibEv("setmode", "timing", handle, HIPBLAS_POINTER_MODE_DEVICE, st)>>)

\* Faulty variant: the status of the timed call is dropped.
geam_TimingIter_unchecked ==
  /\ driver = "geam_batched" /\ pc = "timing_loop"
  /\ loc.iter < arg.cold_iters + arg.iters
  /\ LET stamp == loc.iter = arg.cold_iters
         l1 == IF stamp THEN [loc EXCEPT !.gpu_time_used = "start"] ELSE loc
         tev == IF stamp THEN <<HostEv("stamp", "timing", <<>>, <<>>)>> ELSE <<>>
     IN \E st \in LibStatus :
          Goto("timing_loop", handle,
               Put(mem, "dC", Applied(mem["dC"].val, handle.mode)),
               [l1 EXCEPT !.iter = loc.iter + 1],
               tev \o <<RoutineEv("timing", handle, "device", "device",
                                  <<mem["dA"].val, mem["dB"].val, mem["dC"].val>>, st,
                                  HIPBLAS_STATUS_SUCCESS)>>)

geam_TimingIter ==
  /\ driver = "geam_batched" /\ pc = "timing_loop"
  /\ loc.iter < arg.cold_iters + arg.iters
  /\ LET stamp == loc.iter = arg.cold_iters
         l1 == IF stamp THEN [loc EXCEPT !.gpu_time_used = "start"] ELSE loc
         tev == IF stamp THEN <<HostEv("stamp", "timing", <<>>, <<>>)>> ELSE <<>>
     IN \E st \in LibStatus :
          CHECK_HIPBLAS_ERROR(st, "timing_loop", handle,
            Put(mem, "dC", Applied(mem["dC"].val, handle.mode)),
            [l1 EXCEPT !.iter = loc.iter + 1],
            tev \o <<RoutineEv("timing", handle, "device", "device",
                               <<mem["dA"].val, mem["dB"].val, mem["dC"].val>>, st,
                               HIPBLAS_STATUS_SUCCESS)>>)

geam_Log ==
  /\ driver = "geam_batched" /\ pc = "timing_loop"
  /\ ~(loc.iter < arg.cold_iters + arg.iters)
  /\ Goto("return", handle, mem,
          [loc EXCEPT !.gpu_time_used = Elapsed(loc.gpu_time_used)],
          <<HostEv("stamp", "timing", <<>>, <<>>),
            HostEv("log", "timing",
                   <<Elapsed(loc.gpu_time_used), loc.hipblas_error_host,
                     loc.hipblas_error_device>>, <<>>)>>)

geam_Return ==
  /\ driver = "geam_batched" /\ pc = "return"
  /\ Return(HIPBLAS_STATUS_SUCCESS, handle, mem, loc, <<>>)

geam_Next ==
  \/ geam_ArgCheck \/ geam_CreateHandle \/ geam_Alloc \/ geam_Init \/ geam_Upload
  \/ geam_SetModeHost \/ geam_CallHost \/ geam_DownloadHost \/ geam_ReuploadC
  \/ geam_SetModeDevice \/ geam_CallDevice \/ geam_DownloadDevice
  \/ geam_Reference \/ geam_UnitCheck \/ geam_NormCheck
  \/ geam_GetStream \/ geam_TimingSetMode \/ geam_TimingIter \/ geam_Log \/ geam_Return

(***************************************************************************)
(* testing_rotmg                                                           *)
(***************************************************************************)
rotmg_CreateHandle ==
  /\ driver = "rotmg" /\ pc = "start"
  /\ Goto("init", hipblasLocalHandle(handle), mem, loc, <<>>)

\* hparams is generated; cparams and hparams_d are copies; dparams gets hparams.
rotmg_Init ==
  /\ driver = "rotmg" /\ pc = "init"
  /\ LET m0 == Alloc(mem, {"hparams", "cparams", "hparams_d", "dparams"}, 1)
         m1 == Put(m0, "hparams", Gen("hparams", 1))
         m2 == Put(m1, "cparams", m1["hparams"].val)
         m3 == Put(m2, "hparams_d", m2["hparams"].val)
         m4 == Put(m3, "dparams", m3["hparams"].val)
     IN Goto(AfterBuild, handle, m4, loc,
             <<HostEv("alloc", "build",
                      <<"hparams", "cparams", "hparams_d", "dparams">>, <<>>),
               HostEv("init", "build", <<"hparams">>, <<>>),
               HostEv("upload", "build", <<"dparams">>, <<>>)>>)

rotmg_SetModeHost ==
  /\ driver = "rotmg" /\ pc = "check"
  /\ \E st \in LibStatus :
       CHECK_HIPBLAS_ERROR(st, "call_host",
         hipblasSetPointerMode(handle, HIPBLAS_POINTER_MODE_HOST), mem, loc,
         <<LibEv("setmode", "check", handle, HIPBLAS_POINTER_MODE_HOST, st)>>)

\* The host-mode call works in place on the host array hparams.
rotmg_CallHost ==
  /\ driver = "rotmg" /\ pc = "call_host"
  /\ \E st \in LibStatus :
       CHECK_HIPBLAS_ERROR(st, "set_device", handle,
         Put(mem, "hparams", Applied(mem["hparams"].val, handle.mode)), loc,
         <<RoutineEv("check", handle, "host", "host",
                     <<mem["hparams"].val>>, st, HIPBLAS_STATUS_SUCCESS)>>)

rotmg_SetModeDevice ==
  /\ driver = "rotmg" /\ pc = "set_device"
  /\ \E st \in LibStatus :
       CHECK_HIPBLAS_ERROR(st, "call_device",
         hipblasSetPointerMode(handle, HIPBLAS_POINTER_MODE_DEVICE), mem, loc,
         <<LibEv("setmode", "check", handle, HIPBLAS_POINTER_MODE_DEVICE, st)>>)

rotmg_CallDevice ==
  /\ driver = "rotmg" /\ pc = "call_device"
  /\ \E st \in LibStatus :
       CHECK_HIPBLAS_ERROR(st, "download", handle,
         Put(mem, "dparams", Applied(mem["dparams"].val, handle.mode)), loc,
         <<RoutineEv("check", handle, "device", "device",
                     <<mem["dparams"].val>>, st, HIPBLAS_STATUS_SUCCESS)>>)

rotmg_Download ==
  /\ driver = "rotmg" /\ pc = "download"
  /\ Goto("reference", handle, Put(mem, "hparams_d", mem["dparams"].val), loc,
          <<HostEv("download", "check", <<"hparams_d">>, <<>>)>>)

rotmg_Reference ==
  /\ driver = "rotmg" /\ pc = "reference"
  /\ Goto("unit_check", handle,
          Put(mem, "cparams", Applied(mem["cparams"].val, "cpu")), loc,
          <<HostEv("ref", "check", <<"cparams">>, <<mem["cparams"].val>>)>>)

rotmg_UnitCheck ==
  /\ driver = "rotmg" /\ pc = "unit_check"
  /\ Goto("norm_check", handle, mem, loc,
          IF arg.unit_check
            THEN <<HostEv("unit", "check", <<"cparams", "hparams">>,
                          <<mem["cparams"].val, mem["hparams"].val>>),
                   HostEv("unit", "check", <<"cparams", "hparams_d">>,
                          <<mem["cparams"].val, mem["hparams_d"].val>>)>>
            ELSE <<>>)

rotmg_NormCheck ==
  /\ driver = "rotmg" /\ pc = "norm_check"
  /\ IF arg.norm_check
       THEN Goto(AfterCheck, handle, mem,
                 [loc EXCEPT !.hipblas_error_host = "norm", !.hipblas_error_device = "norm"],
                 <<HostEv("norm", "check", <<"cparams", "hparams">>,
                          <<mem["cparams"].val, mem["hparams"].val>>),
                   HostEv("norm", "check", <<"cparams", "hparams_d">>,
                          <<mem["cparams"].val, mem["hparams_d"].val>>)>>)
       ELSE Goto(AfterCheck, handle, mem, loc, <<>>)

rotmg_GetStream ==
  /\ driver = "rotmg" /\ pc = "timing"
  /\ \E st \in LibStatus :
       CHECK_HIPBLAS_ERROR(st, "timing_mode", handle, mem, loc,
                           <<LibEv("getstream", "timing", handle, handle.mode, st)>>)

rotmg_TimingSetMode ==
  /\ driver = "rotmg" /\ pc = "timing_mode"
  /\ \E st \in LibStatus :
       CHECK_HIPBLAS_ERROR(st, "timing_loop",
         hipblasSetPointerMode(handle, HIPBLAS_POINTER_MODE_DEVICE), mem,
         [loc EXCEPT !.iter = 0],
         <<LibEv("setmode", "timing", handle, HIPBLAS_POINTER_MODE_DEVICE, st)>>)

rotmg_TimingIter ==
  /\ driver = "rotmg" /\ pc = "timing_loop"
  /\ loc.iter < arg.cold_iters + arg.iters
  /\ LET stamp == loc.iter = arg.cold_iters
         l1 == IF stamp THEN [loc EXCEPT !.gpu_time_used = "start"] ELSE loc
         tev == IF stamp THEN <<HostEv("stamp", "timing", <<>>, <<>>)>> ELSE <<>>
     IN \E st \in LibStatus :
          CHECK_HIPBLAS_ERROR(st, "timing_loop", handle,
            Put(mem, "dparams", Applied(mem["dparams"].val, handle.mode)),
            [l1 EXCEPT !.iter = loc.iter + 1],
            tev \o <<RoutineEv("timing", handle, "device", "device",
                               <<mem["dparams"].val>>, st, HIPBLAS_STATUS_SUCCESS)>>)

rotmg_Log ==
  /\ driver = "rotmg" /\ pc = "timing_loop"
  /\ ~(loc.iter < arg.cold_iters + arg.iters)
  /\ Goto("return", handle, mem,
          [loc EXCEPT !.gpu_time_used = Elapsed(loc.gpu_time_used)],
          <<HostEv("stamp", "timing", <<>>, <<>>),
            HostEv("log", "timing",
                   <<Elapsed(loc.gpu_time_used), loc.hipblas_error_host,
                     loc.hipblas_error_device>>, <<>>)>>)

rotmg_Return ==
  /\ driver = "rotmg" /\ pc = "return"
  /\ Return(HIPBLAS_STATUS_SUCCESS, handle, mem, loc, <<>>)

rotmg_Next ==
  \/ rotmg_CreateHandle \/ rotmg_Init
  \/ rotmg_SetModeHost \/ rotmg_CallHost \/ rotmg_SetModeDevice \/ rotmg_CallDevice
  \/ rotmg_Download \/ rotmg_Reference \/ rotmg_UnitCheck \/ rotmg_NormCheck
  \/ rotmg_GetStream \/ rotmg_TimingSetMode \/ rotmg_TimingIter \/ rotmg_Log
  \/ rotmg_Return

(***************************************************************************)
(* testing_tpsv_batched                                                    *)
(***************************************************************************)
tpsv_CreateHandle ==
  /\ driver = "tpsv_batched" /\ pc = "start"
  /\ Goto("sanity", hipblasLocalHandle(handle), mem, loc, <<>>)

\* Faulty variant: a zero increment is not counted as invalid.
invalid_size_without_incx == arg.N < 0 \/ arg.batch_count < 0

invalid_size == arg.N < 0 \/ arg.incx = 0 \/ arg.batch_count < 0

tpsv_quick_return == invalid_size \/ arg.N = 0 \/ arg.batch_count = 0

\* The status EXPECT_HIPBLAS_STATUS compares the actual status with.
tpsv_expected ==
  IF invalid_size THEN HIPBLAS_STATUS_INVALID_VALUE ELSE HIPBLAS_STATUS_SUCCESS

\* The routine is called with null pointers; its status is asserted and returned.
tpsv_QuickReturn ==
  /\ driver = "tpsv_batched" /\ pc = "sanity"
  /\ tpsv_quick_return
  /\ \E actual \in DegenerateStatus :
       Return(actual, handle, mem, loc,
              <<RoutineEv("quick", handle, "null", "none", <<>>, actual, tpsv_expected)>>)

tpsv_Alloc ==
  /\ driver = "tpsv_batched" /\ pc = "sanity"
  /\ ~tpsv_quick_return
  /\ Goto("init", handle,
          Alloc(mem, {"hA", "hAP", "AAT", "hb", "hx", "hx_or_b_1", "hx_or_b_2",
                      "cpu_x_or_b", "dAP", "dx_or_b"}, arg.batch_count),
          [loc EXCEPT !.cumulative_hipblas_error = "zero"],
          <<HostEv("alloc", "build",
                   <<"hA", "hAP", "AAT", "hb", "hx", "hx_or_b_1", "hx_or_b_2",
                     "cpu_x_or_b", "dAP", "dx_or_b">>, <<>>)>>)

tpsv_Init ==
  /\ driver = "tpsv_batched" /\ pc = "init"
  /\ LET m1 == Put(mem, "hA", Gen("hA", arg.batch_count))
         m2 == Put(m1, "hx", Gen("hx", arg.batch_count))
         m3 == Put(m2, "hb", m2["hx"].val)
     IN Goto("build", handle, m3, [loc EXCEPT !.b = 0],
             <<HostEv("init", "build", <<"hA", "hx">>, <<>>)>>)

\* The triangular factor built from batch b of hA (gemm, diagonal dominance,
\* potrf, unit-diagonal scaling).
Factor(a) == [gen |-> "factor", n |-> a.n, by |-> "cpu"]

\* cblas_trmv: hb = op(A) * hb, the inverse of one solve.
Trmv(x) == [gen |-> x.gen, n |-> x.n - 1, by |-> "cpu"]

\* One iteration of the construction loop, or its exit with the three copies of hb.
tpsv_Build ==
  /\ driver = "tpsv_batched" /\ pc = "build"
  /\ IF loc.b < arg.batch_count
       THEN LET b == loc.b + 1
                m1 == Put(mem, "AAT", [mem["AAT"].val EXCEPT ![b] =
                                         [gen |-> "AAT", n |-> 0, by |-> "cpu"]])
                m2 == Put(m1, "hA", [m1["hA"].val EXCEPT ![b] = Factor(@)])
                m3 == Put(m2, "hb", [m2["hb"].val EXCEPT ![b] = Trmv(@)])
                m4 == Put(m3, "hAP", [m3["hAP"].val EXCEPT ![b] = m3["hA"].val[b]])
            IN Goto("build", handle, m4, [loc EXCEPT !.b = b],
                    <<[HostEv("ref", "build", <<"hA", "hb">>,
                              <<<<m2["hA"].val[b]>>, <<mem["hb"].val[b]>>>>)
                         EXCEPT !.par = <<arg.uplo, arg.transA, arg.diag>>]>>)
       ELSE LET m1 == Put(mem, "cpu_x_or_b", mem["hb"].val)
                m2 == Put(m1, "hx_or_b_1", m1["hb"].val)
                m3 == Put(m2, "hx_or_b_2", m2["hb"].val)
            IN Goto("upload", handle, m3, loc, <<>>)

tpsv_Upload ==
  /\ driver = "tpsv_batched" /\ pc = "upload"
  /\ LET m1 == Put(mem, "dAP", mem["hAP"].val)
         m2 == Put(m1, "dx_or_b", m1["hx_or_b_1"].val)
     IN Goto(AfterBuild, handle, m2, loc,
             <<HostEv("upload", "build", <<"dAP", "dx_or_b">>, <<>>)>>)

tpsv_Call ==
  /\ driver = "tpsv_batched" /\ pc = "check"
  /\ \E st \in LibStatus :
       CHECK_HIPBLAS_ERROR(st, "download", handle,
         Put(mem, "dx_or_b", Applied(mem["dx_or_b"].val, handle.mode)), loc,
         <<[RoutineEv("check", handle, "device", "none",
                      <<mem["dAP"].val, mem["dx_or_b"].val>>, st, HIPBLAS_STATUS_SUCCESS)
              EXCEPT !.par = <<arg.uplo, arg.transA, arg.diag>>]>>)

tpsv_Download ==
  /\ driver = "tpsv_batched" /\ pc = "download"
  /\ Goto("compare", handle, Put(mem, "hx_or_b_1", mem["dx_or_b"].val),
          [loc EXCEPT !.b = 0],
          <<HostEv("download", "check", <<"hx_or_b_1">>, <<>>)>>)

\* double tolerance = epsilon * 40 * N, in units of the machine epsilon.
tolerance_factor == 40

tolerance(n) == tolerance_factor * n

\* Faulty variant: the GPU result is compared with the CPU copy of the right-hand side.
tpsv_Compare_against_rhs ==
  /\ driver = "tpsv_batched" /\ pc = "compare"
  /\ IF loc.b < arg.batch_count
       THEN LET b == loc.b + 1
                ops == <<<<mem["cpu_x_or_b"].val[b]>>, <<mem["hx_or_b_1"].val[b]>>>>
            IN Goto("compare", handle, mem,
                    [loc EXCEPT !.b = b, !.hipblas_error = "norm",
                                !.cumulative_hipblas_error = "sum"],
                    <<[HostEv("error", "check", <<"cpu_x_or_b", "hx_or_b_1">>, ops)
                         EXCEPT !.par = <<b>>]>>
                    \o (IF arg.unit_check
                          THEN <<[HostEv("unit", "check", <<"cpu_x_or_b", "hx_or_b_1">>, ops)
                                    EXCEPT !.par = <<tolerance(arg.N)>>]>>
                          ELSE <<>>))
       ELSE Goto(AfterCheck, handle, mem, loc, <<>>)

\* One iteration of the error loop: vector_norm_1 against hx, the unit check,
\* the cumulative sum; or the loop's exit.
tpsv_Compare ==
  /\ driver = "tpsv_batched" /\ pc = "compare"
  /\ IF loc.b < arg.batch_count
       THEN LET b == loc.b + 1
                ops == <<<<mem["hx"].val[b]>>, <<mem["hx_or_b_1"].val[b]>>>>
            IN Goto("compare", handle, mem,
                    [loc EXCEPT !.b = b, !.hipblas_error = "norm",
                                !.cumulative_hipblas_error = "sum"],
                    <<[HostEv("error", "check", <<"hx", "hx_or_b_1">>, ops)
                         EXCEPT !.par = <<b>>]>>
                    \o (IF arg.unit_check
                          THEN <<[HostEv("unit", "check", <<"hx", "hx_or_b_1">>, ops)
                                    EXCEPT !.par = <<tolerance(arg.N)>>]>>
                          ELSE <<>>))
       ELSE Goto(AfterCheck, handle, mem, loc, <<>>)

tpsv_GetStream ==
  /\ driver = "tpsv_batched" /\ pc = "timing"
  /\ \E st \in LibStatus :
       CHECK_HIPBLAS_ERROR(st, "timing_mode", handle, mem, loc,
                           <<LibEv("getstream", "timing", handle, handle.mode, st)>>)

tpsv_TimingSetMode ==
  /\ driver = "tpsv_batched" /\ pc = "timing_mode"
  /\ \E st \in LibStatus :
       CHECK_HIPBLAS_ERROR(st, "timing_loop",
         hipblasSetPointerMode(handle, HIPBLAS_POINTER_MODE_HOST), mem,
         [loc EXCEPT !.iter = 0],
         <<LibEv("setmode", "timing", handle, HIPBLAS_POINTER_MODE_HOST, st)>>)

tpsv_TimingIter ==
  /\ driver = "tpsv_batched" /\ pc = "timing_loop"
  /\ loc.iter < arg.cold_iters + arg.iters
  /\ LET stamp == loc.iter = arg.cold_iters
         l1 == IF stamp THEN [loc EXCEPT !.gpu_time_used = "start"] ELSE loc
         tev == IF stamp THEN <<HostEv("stamp", "timing", <<>>, <<>>)>> ELSE <<>>
     IN \E st \in LibStatus :
          CHECK_HIPBLAS_ERROR(st, "timing_loop", handle,
            Put(mem, "dx_or_b", Applied(mem["dx_or_b"].val, handle.mode)),
            [l1 EXCEPT !.iter = loc.iter + 1],
            tev \o <<RoutineEv("timing", handle, "device", "none",
                               <<mem["dAP"].val, mem["dx_or_b"].val>>, st,
                               HIPBLAS_STATUS_SUCCESS)>>)

tpsv_Log ==
  /\ driver = "tpsv_batched" /\ pc = "timing_loop"
  /\ ~(loc.iter < arg.cold_iters + arg.iters)
  /\ Goto("return", handle, mem,
          [loc EXCEPT !.gpu_time_used = Elapsed(loc.gpu_time_used)],
          <<HostEv("stamp", "timing", <<>>, <<>>),
            HostEv("log", "timing",
                   <<Elapsed(loc.gpu_time_used), loc.cumulative_hipblas_error>>, <<>>)>>)

tpsv_Return ==
  /\ driver = "tpsv_batched" /\ pc = "return"
  /\ Return(HIPBLAS_STATUS_SUCCESS, handle, mem, loc, <<>>)

tpsv_Next ==
  \/ tpsv_CreateHandle \/ tpsv_QuickReturn \/ tpsv_Alloc \/ tpsv_Init \/ tpsv_Build
  \/ tpsv_Upload \/ tpsv_Call \/ tpsv_Download \/ tpsv_Compare
  \/ tpsv_GetStream \/ tpsv_TimingSetMode \/ tpsv_TimingIter \/ tpsv_Log \/ tpsv_Return

Next == axpy_Next \/ copy_Next \/ geam_Next \/ rotmg_Next \/ tpsv_Next

Spec == Init /\ [][Next]_vars

(***************************************************************************)
(* Vocabulary of the properties.                                           *)
(***************************************************************************)
Done == pc = "done"

IsLibCall(e) == e.kind \in {"routine", "setmode", "getstream"}

IsCheckCall(e) == e.kind = "routine" /\ e.phase = "check"

IsCompare(e) == e.kind \in {"unit", "norm", "error"}

CheckCalls == SelectSeq(trace, IsCheckCall)

NCheckCalls(m) == Cardinality({ i \in DOMAIN CheckCalls : CheckCalls[i].mode = m })

IsPrefix(s, t) == Len(s) <= Len(t) /\ \A i \in 1 .. Len(s) : s[i] = t[i]

Modes(s) == [i \in 1 .. Len(s) |-> s[i].mode]

WrittenBy(v, w) == v # <<>> /\ \A i \in DOMAIN v : v[i].by = w

Pristine(v) == v # <<>> /\ \A i \in DOMAIN v : v[i].by = "init" /\ v[i].n = 0

CountBefore(k, Test(_)) == Cardinality({ i \in 1 .. (k - 1) : Test(trace[i]) })

BothModes == {"axpy_batched", "geam_batched", "rotmg"}

SizeDegenerate == arg.N <= 0 \/ arg.batch_count <= 0

GeamInvalid ==
  \/ arg.M <= 0 \/ arg.N <= 0
  \/ arg.lda < (IF arg.transA = "N" THEN arg.M ELSE arg.N)
  \/ arg.ldb < (IF arg.transB = "N" THEN arg.M ELSE arg.N)
  \/ arg.ldc < arg.M
  \/ arg.batch_count < 0

ValidArguments ==
  CASE driver \in {"axpy_batched", "copy_strided_batched"} -> ~SizeDegenerate
    [] driver = "geam_batched" -> ~GeamInvalid /\ arg.batch_count > 0
    [] driver = "rotmg" -> TRUE
    [] driver = "tpsv_batched" -> ~SizeDegenerate /\ arg.incx # 0

\* The invocation ran its check phase to the end and returned normally.
CompletedCheck ==
  /\ Done /\ ret = HIPBLAS_STATUS_SUCCESS
  /\ arg.unit_check \/ arg.norm_check
  /\ ValidArguments

Compared(w) == \E i \in DOMAIN trace : IsCompare(trace[i]) /\ WrittenBy(trace[i].ops[2], w)

AgainstReference == \A i \in DOMAIN trace : IsCompare(trace[i]) => WrittenBy(trace[i].ops[1], "cpu")

(***************************************************************************)
(* C1.  In axpy_batched, copy_strided_batched, geam_batched and            *)
(* tpsv_batched, with N <= 0 or batch_count <= 0 the driver stays on its   *)
(* quick-return path: no buffer is ever allocated, nothing is generated or *)
(* transferred, every routine call gets null data pointers, and the status *)
(* returned is success or invalid-value.                                   *)
(***************************************************************************)
C1_DegenerateTouchesNothing ==
  (driver \in {"axpy_batched", "copy_strided_batched", "geam_batched", "tpsv_batched"}
     /\ SizeDegenerate)
  => /\ pc \in {"start", "sanity", "quick_return", "done"}
     /\ \A x \in DOMAIN mem : mem[x].st = "unalloc"
     /\ \A i \in DOMAIN trace :
          /\ trace[i].kind \notin {"alloc", "init", "upload", "download"}
          /\ trace[i].kind = "routine" => trace[i].data = "null"
     /\ Done => ret \in {HIPBLAS_STATUS_SUCCESS, HIPBLAS_STATUS_INVALID_VALUE}

C1_Witness ==
  /\ Done /\ driver = "axpy_batched" /\ arg.N = 0 /\ arg.batch_count > 0
  /\ ret = HIPBLAS_STATUS_SUCCESS
  /\ Len(trace) = 1 /\ trace[1].kind = "routine" /\ trace[1].data = "null"

(***************************************************************************)
(* C2 as stated: in all five drivers a completed check phase has one       *)
(* routine call in HOST mode and one in DEVICE mode, both compared.        *)
(***************************************************************************)
C2_AllFiveBothModes ==
  CompletedCheck =>
    /\ NCheckCalls(HIPBLAS_POINTER_MODE_HOST) = 1
    /\ NCheckCalls(HIPBLAS_POINTER_MODE_DEVICE) = 1
    /\ Compared(HIPBLAS_POINTER_MODE_HOST)
    /\ Compared(HIPBLAS_POINTER_MODE_DEVICE)

(***************************************************************************)
(* C2 amended.  axpy_batched, geam_batched and rotmg: a completed check    *)
(* phase has exactly two routine calls, one in HOST and one in DEVICE      *)
(* mode, and the result of each is compared against the CPU reference.     *)
(* copy_strided_batched and tpsv_batched: exactly one routine call, made   *)
(* without setting the pointer mode, and its result is compared (copy      *)
(* against the CPU reference, tpsv against the generated vector hx).       *)
(***************************************************************************)
C2_PointerModesPerDriver ==
  CompletedCheck =>
    IF driver \in BothModes
      THEN /\ Len(CheckCalls) = 2
           /\ NCheckCalls(HIPBLAS_POINTER_MODE_HOST) = 1
           /\ NCheckCalls(HIPBLAS_POINTER_MODE_DEVICE) = 1
           /\ Compared(HIPBLAS_POINTER_MODE_HOST)
           /\ Compared(HIPBLAS_POINTER_MODE_DEVICE)
           /\ AgainstReference
      ELSE /\ Len(CheckCalls) = 1
           /\ CheckCalls[1].mode = "DEFAULT"
           /\ \A i \in DOMAIN trace :
                ~(trace[i].kind = "setmode" /\ trace[i].phase = "check")
           /\ Compared("DEFAULT")
           /\ driver = "copy_strided_batched" => AgainstReference
           /\ driver = "tpsv_batched" =>
                \A i \in DOMAIN trace :
                  IsCompare(trace[i]) =>
                    Pristine(trace[i].ops[1]) /\ trace[i].bufs[1] = "hx"

C2_Witness ==
  /\ CompletedCheck /\ driver = "axpy_batched"
  /\ arg.unit_check /\ arg.norm_check /\ arg.batch_count = 2

(***************************************************************************)
(* C3 as stated: in axpy_batched, geam_batched and rotmg every HOST-mode   *)
(* check call precedes every DEVICE-mode check call.                       *)
(***************************************************************************)
C3_HostBeforeDevice ==
  driver \in BothModes =>
    \A i, j \in DOMAIN CheckCalls :
      (CheckCalls[i].mode = HIPBLAS_POINTER_MODE_HOST
         /\ CheckCalls[j].mode = HIPBLAS_POINTER_MODE_DEVICE) => i < j

(***************************************************************************)
(* C3 amended.  geam_batched and rotmg issue the HOST-mode check call      *)
(* first and the DEVICE-mode call second; axpy_batched issues the          *)
(* DEVICE-mode call first and the HOST-mode call second.                   *)
(***************************************************************************)
C3_CallOrderPerDriver ==
  /\ driver \in {"geam_batched", "rotmg"} =>
       IsPrefix(Modes(CheckCalls), <<HIPBLAS_POINTER_MODE_HOST, HIPBLAS_POINTER_MODE_DEVICE>>)
  /\ driver = "axpy_batched" =>
       IsPrefix(Modes(CheckCalls), <<HIPBLAS_POINTER_MODE_DEVICE, HIPBLAS_POINTER_MODE_HOST>>)

C3_Witness ==
  /\ driver = "axpy_batched" /\ Len(CheckCalls) = 2
  /\ CheckCalls[1].st = HIPBLAS_STATUS_SUCCESS /\ CheckCalls[2].st = HIPBLAS_STATUS_SUCCESS

(***************************************************************************)
(* Phases.  Rank(e, r) is the phase of event e: 0 build inputs, 1 GPU      *)
(* calls of the check phase with their transfers, 2 CPU reference call,    *)
(* 3 comparison, 4 timing; r is the rank given to a reference call made    *)
(* while the inputs are built.                                             *)
(***************************************************************************)
Ranked(e) == e.phase # "quick"

Rank(e, r) ==
  CASE e.phase = "timing" -> 4
    [] IsCompare(e) -> 3
    [] e.kind = "ref" -> IF e.phase = "build" THEN r ELSE 2
    [] e.phase = "check" /\ ~IsCompare(e) /\ e.kind # "ref" -> 1
    [] e.phase = "build" /\ e.kind # "ref" -> 0

Ordered(r) ==
  \A i, j \in DOMAIN trace :
    (i < j /\ Ranked(trace[i]) /\ Ranked(trace[j])) => Rank(trace[i], r) <= Rank(trace[j], r)

IsRef(e) == e.kind = "ref"

IsDownload(e) == e.kind = "download"

(***************************************************************************)
(* C4 as stated: in every driver the events follow the order build ->      *)
(* GPU check calls -> CPU reference call -> comparison -> timing.          *)
(***************************************************************************)
C4_FixedPhaseOrder == Ordered(2)

(***************************************************************************)
(* C4 amended.  In axpy_batched, copy_strided_batched, geam_batched and    *)
(* rotmg the order is build -> GPU check calls -> CPU reference ->         *)
(* comparison -> timing; in tpsv_batched the CPU reference call (trmv)     *)
(* belongs to building the inputs and precedes the GPU call.  In all five, *)
(* when a comparison runs every check-phase GPU call, every reference call *)
(* and every copy back to the host has been made, and the timing phase     *)
(* starts after the last comparison.                                       *)
(***************************************************************************)
C4_PhaseOrderPerDriver ==
  /\ Ordered(0)
  /\ driver # "tpsv_batched" => Ordered(2)
  /\ \A k \in DOMAIN trace :
       IsCompare(trace[k]) =>
         /\ CountBefore(k, IsCheckCall) = (IF driver \in BothModes THEN 2 ELSE 1)
         /\ CountBefore(k, IsRef) = (IF driver = "rotmg" THEN 1 ELSE arg.batch_count)
         /\ CountBefore(k, IsDownload) = (IF driver = "geam_batched" THEN 2 ELSE 1)

C4_Witness ==
  /\ Done /\ ret = HIPBLAS_STATUS_SUCCESS /\ driver = "axpy_batched"
  /\ arg.unit_check /\ arg.norm_check /\ arg.timing /\ arg.iters = 1
  /\ arg.batch_count = 2
  /\ \E k \in DOMAIN trace : trace[k].kind = "log"

(***************************************************************************)
(* C5.  A library call (set pointer mode, get stream, routine) that        *)
(* returns a status other than success is the last thing the invocation    *)
(* does: the driver has returned, with a status that is not success.       *)
(***************************************************************************)
C5_FailurePropagates ==
  \A i \in DOMAIN trace :
    (IsLibCall(trace[i]) /\ trace[i].st # HIPBLAS_STATUS_SUCCESS) =>
      /\ i = Len(trace)
      /\ Done
      /\ ret # HIPBLAS_STATUS_SUCCESS
      /\ ret = trace[i].st

C5_Witness ==
  /\ Done /\ ret = HIPBLAS_STATUS_EXECUTION_FAILED /\ driver = "geam_batched"
  /\ trace[Len(trace)].kind = "routine" /\ trace[Len(trace)].phase = "timing"
  /\ loc.iter = 1

(***************************************************************************)
(* C6.  tpsv_batched: with N < 0 or incx = 0 or batch_count < 0 the        *)
(* routine is called once with null pointers and the status expected is    *)
(* invalid-value; otherwise with N = 0 or batch_count = 0 it is called     *)
(* once with null pointers and the status expected is success; the driver  *)
(* returns the status the library returned.                                *)
(***************************************************************************)
C6_TpsvQuickReturn ==
  (driver = "tpsv_batched" /\ Done) =>
    LET invalid == arg.N < 0 \/ arg.incx = 0 \/ arg.batch_count < 0
        empty == arg.N = 0 \/ arg.batch_count = 0
    IN (invalid \/ empty) =>
         /\ Len(trace) = 1
         /\ trace[1].kind = "routine"
         /\ trace[1].data = "null"
         /\ trace[1].exp = (IF invalid THEN HIPBLAS_STATUS_INVALID_VALUE
                                       ELSE HIPBLAS_STATUS_SUCCESS)
         /\ ret = trace[1].st

C6_Witness ==
  /\ driver = "tpsv_batched" /\ Done /\ arg.N = 0 /\ arg.batch_count < 0
  /\ trace[1].exp = HIPBLAS_STATUS_INVALID_VALUE
  /\ ret = HIPBLAS_STATUS_SUCCESS

(***************************************************************************)
(* C7.  geam_batched returns invalid-value with no handle created and no   *)
(* library call exactly when M <= 0 or N <= 0 or lda < A_row or            *)
(* ldb < B_row or ldc < M or batch_count < 0; with none of these and       *)
(* batch_count = 0 it returns success, again with no handle and no call.   *)
(***************************************************************************)
C7_GeamArgumentCheck ==
  (driver = "geam_batched" /\ Done) =>
    LET untouched == handle.state = "none" /\ trace = <<>>
    IN /\ (ret = HIPBLAS_STATUS_INVALID_VALUE /\ untouched) <=> GeamInvalid
       /\ (~GeamInvalid /\ arg.batch_count = 0) =>
            (ret = HIPBLAS_STATUS_SUCCESS /\ untouched)

C7_Witness ==
  /\ driver = "geam_batched" /\ Done
  /\ arg.batch_count = 0 /\ arg.M > 0 /\ arg.N > 0 /\ arg.transA = "T"
  /\ arg.lda < arg.N
  /\ ret = HIPBLAS_STATUS_INVALID_VALUE

(***************************************************************************)
(* C8.  axpy_batched and copy_strided_batched, with N <= 0 or              *)
(* batch_count <= 0: the routine is called exactly once, with null vector  *)
(* pointers, the status required of it is success, and the driver returns  *)
(* success when the call did and the call's status otherwise.              *)
(***************************************************************************)
C8_QuickReturnRequiresSuccess ==
  (driver \in {"axpy_batched", "copy_strided_batched"} /\ Done /\ SizeDegenerate) =>
    /\ Len(trace) = 1
    /\ trace[1].kind = "routine"
    /\ trace[1].data = "null"
    /\ trace[1].exp = HIPBLAS_STATUS_SUCCESS
    /\ ret = trace[1].st

C8_Witness ==
  /\ driver = "copy_strided_batched" /\ Done /\ arg.N < 0 /\ arg.batch_count < 0
  /\ ret = HIPBLAS_STATUS_SUCCESS /\ Len(trace) = 1

(***************************************************************************)
(* C9.  In axpy_batched, geam_batched and rotmg every check-phase          *)
(* invocation (HOST-mode call, DEVICE-mode call, CPU reference call) gets  *)
(* operands that hold the generated data: none has been written by an      *)
(* earlier invocation.                                                     *)
(***************************************************************************)
C9_OperandsPristine ==
  driver \in BothModes =>
    \A i \in DOMAIN trace :
      (IsCheckCall(trace[i]) \/ IsRef(trace[i])) =>
        /\ trace[i].ops # <<>>
        /\ \A k \in DOMAIN trace[i].ops : Pristine(trace[i].ops[k])

C9_Witness ==
  /\ driver = "geam_batched" /\ CompletedCheck /\ arg.batch_count = 2
  /\ Len(CheckCalls) = 2
  /\ Cardinality({ i \in DOMAIN trace : IsRef(trace[i]) }) = 2

(***************************************************************************)
(* C10.  An invocation creates at most one handle, makes every library     *)
(* call on that handle while it is live, and when it has returned (quick   *)
(* return, error return or normal return) neither the handle nor any       *)
(* buffer is live.                                                         *)
(***************************************************************************)
C10_OneHandleNothingLeaks ==
  /\ handle.id <= 1
  /\ \A i \in DOMAIN trace : IsLibCall(trace[i]) => (trace[i].hid = 1 /\ trace[i].hlive)
  /\ Done => /\ handle.state # "live"
             /\ \A x \in DOMAIN mem : mem[x].st # "live"

C10_Witness ==
  /\ Done /\ ret = HIPBLAS_STATUS_EXECUTION_FAILED /\ driver = "tpsv_batched"
  /\ handle.state = "destroyed"
  /\ \A x \in DOMAIN mem : mem[x].st = "freed"

(***************************************************************************)
(* Timing phase.                                                           *)
(***************************************************************************)
IsTimingCall(e) == e.kind = "routine" /\ e.phase = "timing"

IsStamp(e) == e.kind = "stamp"

IsLog(e) == e.kind = "log"

Logged == \E k \in DOMAIN trace : IsLog(trace[k])

(***************************************************************************)
(* C11 as stated: when a driver logs its timing, the routine has been      *)
(* invoked exactly cold_iters + iters times in the timing phase, exactly   *)
(* two timestamps have been taken (start and end), the first of them after *)
(* exactly cold_iters invocations, and the logged gpu_time_used is the     *)
(* difference of the end stamp and the start stamp, for all                *)
(* cold_iters >= 0 and iters >= 0.                                         *)
(***************************************************************************)
C11_TimingWindow ==
  \A k \in DOMAIN trace :
    IsLog(trace[k]) =>
      /\ CountBefore(k, IsTimingCall) = arg.cold_iters + arg.iters
      /\ CountBefore(k, IsStamp) = 2
      /\ \E s \in 1 .. (k - 1) :
           /\ IsStamp(trace[s])
           /\ CountBefore(s, IsStamp) = 0
           /\ CountBefore(s, IsTimingCall) = arg.cold_iters
      /\ trace[k].bufs[1] = "elapsed"

(***************************************************************************)
(* C12 as stated: every error value a driver passes to log_args has been   *)
(* assigned before it is read, for every combination of unit_check,        *)
(* norm_check and timing.                                                  *)
(***************************************************************************)
C12_LoggedErrorsAssigned ==
  \A k \in DOMAIN trace :
    IsLog(trace[k]) =>
      \A j \in 2 .. Len(trace[k].bufs) : trace[k].bufs[j] # "uninit"

(***************************************************************************)
(* C13: at every call of the routine under test that takes scalar or       *)
(* parameter pointers, in the check phase and in the timing loop, device   *)
(* pointers are passed only while the handle's pointer mode is DEVICE and  *)
(* host pointers only while it is HOST.                                    *)
(***************************************************************************)
C13_ModeMatchesPointers ==
  \A i \in DOMAIN trace :
    (trace[i].kind = "routine" /\ trace[i].phase \in {"check", "timing"}) =>
      /\ trace[i].scalar = "device" => trace[i].mode = HIPBLAS_POINTER_MODE_DEVICE
      /\ trace[i].scalar = "host" => trace[i].mode = HIPBLAS_POINTER_MODE_HOST
      /\ trace[i].scalar \in {"device", "host"} <=> driver \in BothModes

C13_Witness ==
  /\ driver = "axpy_batched" /\ Done /\ ret = HIPBLAS_STATUS_SUCCESS
  /\ arg.unit_check /\ arg.timing /\ arg.iters = 1
  /\ \E i, j, k \in DOMAIN trace :
       /\ i < j /\ j < k
       /\ IsCheckCall(trace[i]) /\ trace[i].scalar = "device"
       /\ IsCheckCall(trace[j]) /\ trace[j].scalar = "host"
       /\ IsTimingCall(trace[k]) /\ trace[k].scalar = "device"

(***************************************************************************)
(* C16: in axpy_batched, copy_strided_batched, geam_batched and rotmg,     *)
(* when unit_check and norm_check are both enabled every unit (or near)    *)
(* check precedes every norm check, and no compared result is norm-checked *)
(* twice.                                                                  *)
(***************************************************************************)
C16_UnitBeforeNorm ==
  (driver # "tpsv_batched" /\ arg.unit_check /\ arg.norm_check) =>
    /\ \A i, j \in DOMAIN trace :
         (trace[i].kind = "unit" /\ trace[j].kind = "norm") => i < j
    /\ \A i, j \in DOMAIN trace :
         (trace[i].kind = "norm" /\ trace[j].kind = "norm"
            /\ trace[i].bufs = trace[j].bufs) => i = j

C16_Witness ==
  /\ driver = "rotmg" /\ Done /\ ret = HIPBLAS_STATUS_SUCCESS
  /\ arg.unit_check /\ arg.norm_check
  /\ Cardinality({ i \in DOMAIN trace : trace[i].kind = "unit" }) = 2
  /\ Cardinality({ i \in DOMAIN trace : trace[i].kind = "norm" }) = 2

(***************************************************************************)
(* Buffer sizes of testing_copy_strided_batched.  The specification        *)
(* SpecCopySizes draws N, incx, incy, batch_count and stride_scale from    *)
(* small sets, computes the strides and allocated lengths as the driver    *)
(* does, and then picks one element (batch b, index i) of x and of y that  *)
(* the routine and the reference loop touch.  stride_scale is a double in  *)
(* the source; here it is a non-negative fraction num/den, and the         *)
(* conversion of the product to the integer hipblasStride truncates.       *)
(***************************************************************************)
MaxLen == 2
MaxInc == 2
MaxScaleNum == 4

StrideScales == { [num |-> n, den |-> d] : n \in 0 .. MaxScaleNum, d \in 1 .. 2 }

CopySizeArgs ==
  [N : 0 .. MaxLen, incx : (0 - MaxInc) .. MaxInc, incy : {0 - MaxInc, 1},
   batch_count : 0 .. MaxBatch, stride_scale : StrideScales]

abs_inc(inc) == IF inc >= 0 THEN inc ELSE 0 - inc

\* hipblasStride stride = size_t(N) * abs_inc * stride_scale;
copy_stride(n, ainc, scale) == (n * ainc * scale.num) \div scale.den

\* size_t size = stride * batch_count; if(!size) size = 1;
copy_size(stride, bc) == IF stride * bc = 0 THEN 1 ELSE stride * bc

CopyLoc0 ==
  [abs_incx |-> 0, abs_incy |-> 0, stridex |-> 0, stridey |-> 0,
   sizeX |-> 0, sizeY |-> 0, b |-> 0, i |-> 0, offx |-> 0, offy |-> 0]

InitCopySizes ==
  /\ driver = "copy_strided_batched"
  /\ arg \in CopySizeArgs
  /\ pc = "sizes"
  /\ ret = "none"
  /\ handle = NoHandle
  /\ mem = [x \in Buffers("copy_strided_batched") |-> Unalloc]
  /\ loc = CopyLoc0
  /\ trace = <<>>

copy_Sizes ==
  /\ pc = "sizes"
  /\ LET ax == abs_inc(arg.incx)
         ay == abs_inc(arg.incy)
         sx == copy_stride(arg.N, ax, arg.stride_scale)
         sy == copy_stride(arg.N, ay, arg.stride_scale)
     IN loc' = [loc EXCEPT !.abs_incx = ax, !.abs_incy = ay,
                           !.stridex = sx, !.stridey = sy,
                           !.sizeX = copy_size(sx, arg.batch_count),
                           !.sizeY = copy_size(sy, arg.batch_count)]
  /\ pc' = "sanity"
  /\ UNCHANGED <<driver, arg, ret, handle, mem, trace>>

copy_SizesQuickReturn ==
  /\ pc = "sanity"
  /\ copy_quick_return
  /\ pc' = "done"
  /\ UNCHANGED <<driver, arg, ret, handle, mem, loc, trace>>

\* Element i of batch b of x and of y, as the routine and cblas_copy address them.
copy_Access ==
  /\ pc = "sanity"
  /\ ~copy_quick_return
  /\ \E b \in 0 .. (arg.batch_count - 1) :
       \E i \in 0 .. (arg.N - 1) :
         loc' = [loc EXCEPT !.b = b, !.i = i,
                            !.offx = b * loc.stridex + i * loc.abs_incx,
                            !.offy = b * loc.stridey + i * loc.abs_incy]
  /\ pc' = "accessed"
  /\ UNCHANGED <<driver, arg, ret, handle, mem, trace>>

NextCopySizes == copy_Sizes \/ copy_SizesQuickReturn \/ copy_Access

SpecCopySizes == InitCopySizes /\ [][NextCopySizes]_vars

(***************************************************************************)
(* C14 as stated: for every argument set of testing_copy_strided_batched   *)
(* that passes the quick-return check (N > 0, batch_count > 0, any incx    *)
(* and incy, any stride_scale >= 0) every element offset                   *)
(* b*stridex + i*|incx| is smaller than sizeX and every offset             *)
(* b*stridey + i*|incy| is smaller than sizeY.                             *)
(***************************************************************************)
C14_OffsetsInBounds ==
  pc = "accessed" => (loc.offx < loc.sizeX /\ loc.offy < loc.sizeY)

(***************************************************************************)
(* Buffer sizes of testing_geam_batched.  The specification SpecGeamSizes  *)
(* draws M, N, lda, ldb, ldc, transA, transB and batch_count from small    *)
(* sets, computes the per-batch sizes, applies the argument check, and     *)
(* then picks one column-major element of A, of B and of C.                *)
(***************************************************************************)
GeamSizeArgs ==
  { [ArgDefault EXCEPT !.M = m, !.N = n, !.lda = la, !.ldb = lb, !.ldc = lc,
                       !.transA = ta, !.transB = tb, !.batch_count = bc] :
      m \in 0 .. MaxLen, n \in 0 .. MaxLen,
      la \in 1 .. (MaxLen + 1), lb \in 1 .. (MaxLen + 1), lc \in 1 .. (MaxLen + 1),
      ta \in TransVals, tb \in TransVals, bc \in {-1, 0, 1} }

\* Faulty variant: A is sized by its row count.
A_size_by_rows == arg.lda * A_row

A_size == arg.lda * A_col

B_size == arg.ldb * B_col

C_size == arg.ldc * arg.N

GeamLoc0 ==
  [A_size |-> 0, B_size |-> 0, C_size |-> 0, offA |-> 0, offB |-> 0, offC |-> 0]

InitGeamSizes ==
  /\ driver = "geam_batched"
  /\ arg \in GeamSizeArgs
  /\ pc = "sizes"
  /\ ret = "none"
  /\ handle = NoHandle
  /\ mem = [x \in Buffers("geam_batched") |-> Unalloc]
  /\ loc = GeamLoc0
  /\ trace = <<>>

geam_Sizes ==
  /\ pc = "sizes"
  /\ loc' = [loc EXCEPT !.A_size = A_size, !.B_size = B_size, !.C_size = C_size]
  /\ pc' = "start"
  /\ UNCHANGED <<driver, arg, ret, handle, mem, trace>>

geam_SizesArgCheck ==
  /\ pc = "start"
  /\ geam_invalid_size \/ arg.batch_count = 0
  /\ ret' = IF geam_invalid_size THEN HIPBLAS_STATUS_INVALID_VALUE
                                 ELSE HIPBLAS_STATUS_SUCCESS
  /\ pc' = "done"
  /\ UNCHANGED <<driver, arg, handle, mem, loc, trace>>

\* Element (i, j) of the A_row x A_col matrix A, the B_row x B_col matrix B
\* and the M x N matrix C, stored column-major with lda, ldb, ldc.
geam_Access ==
  /\ pc = "start"
  /\ ~(geam_invalid_size \/ arg.batch_count = 0)
  /\ \E ia \in 0 .. (A_row - 1), ja \in 0 .. (A_col - 1),
        ib \in 0 .. (B_row - 1), jb \in 0 .. (B_col - 1),
        ic \in 0 .. (arg.M - 1), jc \in 0 .. (arg.N - 1) :
       loc' = [loc EXCEPT !.offA = ia + ja * arg.lda,
                          !.offB = ib + jb * arg.ldb,
                          !.offC = ic + jc * arg.ldc]
  /\ pc' = "accessed"
  /\ UNCHANGED <<driver, arg, ret, handle, mem, trace>>

NextGeamSizes == geam_Sizes \/ geam_SizesArgCheck \/ geam_Access

SpecGeamSizes == InitGeamSizes /\ [][NextGeamSizes]_vars

(***************************************************************************)
(* C15: for every argument set of testing_geam_batched that passes the     *)
(* argument check, every column-major offset i + j*lda of A is below       *)
(* A_size, every i + j*ldb of B is below B_size and every i + j*ldc of C   *)
(* is below C_size, for both transpose settings of A and of B.             *)
(***************************************************************************)
C15_MatricesFit ==
  pc = "accessed" =>
    /\ loc.offA < loc.A_size
    /\ loc.offB < loc.B_size
    /\ loc.offC < loc.C_size

C15_Witness ==
  /\ pc = "accessed"
  /\ arg.transA = "T" /\ arg.transB = "N"
  /\ arg.M = 2 /\ arg.N = 1 /\ arg.lda = 1 /\ arg.ldb = 2
  /\ loc.offA = loc.A_size - 1
  /\ loc.offB = loc.B_size - 1

(***************************************************************************)
(* The round trip of testing_tpsv_batched.                                 *)
(***************************************************************************)
IsError(e) == e.kind = "error"

RefEvents == SelectSeq(trace, IsRef)

ErrorEvents == SelectSeq(trace, IsError)

(***************************************************************************)
(* C17: in testing_tpsv_batched the right-hand side of batch b given to    *)
(* the GPU solver is the reference trmv of the generated vector hx, made   *)
(* with the uplo, transA and diag of the GPU call and with the matrix that *)
(* is packed and uploaded unchanged; the GPU solution is compared with the *)
(* generated hx; under unit_check the error of every batch is checked      *)
(* against epsilon*40*N; and the logged error is the sum of one error per  *)
(* batch.                                                                  *)
(***************************************************************************)
C17_RoundTrip ==
  driver = "tpsv_batched" =>
    /\ \A k \in DOMAIN trace :
         IsCheckCall(trace[k]) =>
           /\ Len(RefEvents) = arg.batch_count
           /\ \A b \in 1 .. arg.batch_count :
                /\ RefEvents[b].par = trace[k].par
                /\ RefEvents[b].ops[1][1] = trace[k].ops[1][b]
                /\ Pristine(RefEvents[b].ops[2])
                /\ RefEvents[b].ops[2][1].gen = "hx"
                /\ trace[k].ops[2][b] = Trmv(RefEvents[b].ops[2][1])
    /\ \A k \in DOMAIN trace :
         (IsCompare(trace[k])) =>
           /\ trace[k].bufs = <<"hx", "hx_or_b_1">>
           /\ Pristine(trace[k].ops[1]) /\ trace[k].ops[1][1].gen = "hx"
           /\ WrittenBy(trace[k].ops[2], "DEFAULT")
           /\ trace[k].ops[2][1].gen = "hx" /\ trace[k].ops[2][1].n = 0
           /\ trace[k].kind = "unit" =>
                (arg.unit_check /\ trace[k].par = <<40 * arg.N>>
                   /\ IsError(trace[k - 1]) /\ trace[k - 1].ops = trace[k].ops)
           /\ (trace[k].kind = "error" /\ arg.unit_check) =>
                (k < Len(trace) /\ trace[k + 1].kind = "unit")
    /\ \A i \in DOMAIN ErrorEvents : ErrorEvents[i].par = <<i>>
    /\ \A k \in DOMAIN trace :
         IsLog(trace[k]) =>
           IF arg.unit_check \/ arg.norm_check
             THEN /\ Len(ErrorEvents) = arg.batch_count
                  /\ trace[k].bufs[2] = "sum"
             ELSE /\ Len(ErrorEvents) = 0
                  /\ trace[k].bufs[2] = "zero"

C17_Witness ==
  /\ driver = "tpsv_batched" /\ Done /\ ret = HIPBLAS_STATUS_SUCCESS
  /\ arg.unit_check /\ arg.timing /\ arg.batch_count = 2 /\ arg.diag = "U"
  /\ Logged
  /\ Len(ErrorEvents) = 2
  /\ Cardinality({ k \in DOMAIN trace : trace[k].kind = "unit" }) = 2

(***************************************************************************)
(* The matrix testing_tpsv_batched hands to the Cholesky factorization.    *)
(* The specification SpecTpsvDominant draws N and one batch of hA (an      *)
(* N x N column-major matrix of small integers), computes AAT = hA * hA^T  *)
(* as the gemm call does, and runs the loop that copies AAT into hA and    *)
(* overwrites the diagonal, one row per step.  Element (i, j) is at index  *)
(* i + j*N, as in the source.                                              *)
(***************************************************************************)
MaxDim == 2

Entries == {-1, 0, 1}

Cells(n) == 0 .. (n * n - 1)

Abs(x) == IF x >= 0 THEN x ELSE 0 - x

RECURSIVE SumTo(_, _)
\* f(0) + ... + f(n - 1)
SumTo(f, n) == IF n <= 0 THEN 0 ELSE SumTo(f, n - 1) + f[n - 1]

\* cblas_gemm(OP_N, OP_T, N, N, N, 1, hA, N, hA, N, 0, AAT, N)
gemm_AAT(a, n) ==
  [c \in Cells(n) |->
     LET i == c % n
         j == c \div n
     IN SumTo([k \in 0 .. (n - 1) |-> a[i + k * n] * a[j + k * n]], n)]

\* Row i of the loop: hA[i + j*N] = AAT[i + j*N] for every j, then hA[i + i*N] = t
\* with t the sum of the absolute values of row i of AAT.
dominant_row(a, aat, n, i) ==
  [c \in Cells(n) |->
     IF c % n # i THEN a[c]
     ELSE IF c \div n = i
            THEN SumTo([j \in 0 .. (n - 1) |-> Abs(aat[i + j * n])], n)
            ELSE aat[c]]

InitTpsvDominant ==
  /\ driver = "tpsv_batched"
  /\ \E n \in 1 .. MaxDim :
       /\ arg = [ArgDefault EXCEPT !.N = n]
       /\ \E a \in [Cells(n) -> Entries] :
            mem = [hA |-> a, AAT |-> [c \in Cells(n) |-> 0]]
  /\ pc = "gemm"
  /\ ret = "none"
  /\ handle = NoHandle
  /\ loc = [i |-> 0]
  /\ trace = <<>>

tpsv_Gemm ==
  /\ pc = "gemm"
  /\ mem' = [mem EXCEPT !.AAT = gemm_AAT(mem.hA, arg.N)]
  /\ loc' = [loc EXCEPT !.i = 0]
  /\ pc' = "dominant"
  /\ UNCHANGED <<driver, arg, ret, handle, trace>>

tpsv_DominantRow ==
  /\ pc = "dominant"
  /\ loc.i < arg.N
  /\ mem' = [mem EXCEPT !.hA = dominant_row(mem.hA, mem.AAT, arg.N, loc.i)]
  /\ loc' = [loc EXCEPT !.i = loc.i + 1]
  /\ UNCHANGED <<driver, arg, pc, ret, handle, trace>>

tpsv_DominantDone ==
  /\ pc = "dominant"
  /\ ~(loc.i < arg.N)
  /\ pc' = "potrf"
  /\ UNCHANGED <<driver, arg, ret, handle, mem, loc, trace>>

NextTpsvDominant == tpsv_Gemm \/ tpsv_DominantRow \/ tpsv_DominantDone

SpecTpsvDominant == InitTpsvDominant /\ [][NextTpsvDominant]_vars

Symmetric(a, n) ==
  \A i, j \in 0 .. (n - 1) : a[i + j * n] = a[j + i * n]

OffDiagonalSum(a, n, i) ==
  SumTo([j \in 0 .. (n - 1) |-> IF j = i THEN 0 ELSE Abs(a[i + j * n])], n)

(***************************************************************************)
(* C18 as stated: for every initial matrix hA, the matrix handed to the    *)
(* Cholesky factorization is symmetric and strictly diagonally dominant:   *)
(* each diagonal entry is strictly greater than the sum of the absolute    *)
(* values of the other entries of its row.                                 *)
(***************************************************************************)
C18_StrictlyDominant ==
  pc = "potrf" =>
    /\ Symmetric(mem.hA, arg.N)
    /\ \A i \in 0 .. (arg.N - 1) :
         mem.hA[i + i * arg.N] > OffDiagonalSum(mem.hA, arg.N, i)

(***************************************************************************)
(* The unit-diagonal normalisation of testing_tpsv_batched.  The           *)
(* specification SpecTpsvUnitDiag starts after cblas_potrf: hA holds a     *)
(* Cholesky factor in the triangle selected by uplo (positive diagonal)    *)
(* and arbitrary values in the other triangle.  Entries are fractions      *)
(* num/den in lowest terms with den > 0, so that the division of the       *)
(* source is computed exactly.  mem.factor keeps the matrix potrf left,    *)
(* mem.hA is the matrix the loops update, one outer iteration per step.    *)
(***************************************************************************)
RECURSIVE Gcd(_, _)
Gcd(a, b) == IF b = 0 THEN a ELSE Gcd(b, a % b)

Frac(p, q) ==
  LET g == Gcd(Abs(p), Abs(q))
      sg == IF q < 0 THEN 0 - 1 ELSE 1
  IN [num |-> (sg * p) \div g, den |-> (sg * q) \div g]

\* x / d for a divisor d that is not zero.
Div(x, d) == Frac(x.num * d.den, x.den * d.num)

DiagonalValues == { Frac(1, 1), Frac(2, 1), Frac(1, 2) }

OtherValues == { Frac(0 - 1, 1), Frac(3, 1) }

\* What cblas_potrf leaves in hA: a positive diagonal, any other entries.
Factors(n) ==
  LET OnDiagonal == { c \in Cells(n) : c % n = c \div n }
  IN { [c \in Cells(n) |-> IF c \in OnDiagonal THEN d[c] ELSE o[c]] :
         d \in [OnDiagonal -> DiagonalValues],
         o \in [Cells(n) \ OnDiagonal -> OtherValues] }

UploVals == {"L", "l", "U", "u"}

DiagVals == {"U", "u", "N"}

\* Outer iteration i of the loop for a lower-triangular factor:
\* diag = hA[i + i*N]; hA[i + j*N] = hA[i + j*N] / diag for j = 0 .. i.
unit_diag_row(a, n, i) ==
  [c \in Cells(n) |->
     IF c % n = i /\ c \div n <= i THEN Div(a[c], a[i + i * n]) ELSE a[c]]

\* Faulty variant: the upper loop addresses hA[j + i*N].
unit_diag_column_transposed(a, n, j) ==
  [c \in Cells(n) |->
     IF c % n = j /\ c \div n <= j THEN Div(a[c], a[j + j * n]) ELSE a[c]]

\* Outer iteration j of the loop for an upper-triangular factor:
\* diag = hA[j + j*N]; hA[i + j*N] = hA[i + j*N] / diag for i = 0 .. j.
unit_diag_column(a, n, j) ==
  [c \in Cells(n) |->
     IF c \div n = j /\ c % n <= j THEN Div(a[c], a[j + j * n]) ELSE a[c]]

diag_is_unit == arg.diag = "U" \/ arg.diag = "u"

uplo_is_lower == arg.uplo = "L" \/ arg.uplo = "l"

InitTpsvUnitDiag ==
  /\ driver = "tpsv_batched"
  /\ \E n \in 1 .. MaxDim, u \in UploVals, d \in DiagVals :
       /\ arg = [ArgDefault EXCEPT !.N = n, !.uplo = u, !.diag = d]
       /\ \E a \in Factors(n) : mem = [hA |-> a, factor |-> a]
  /\ pc = "unit_diag"
  /\ ret = "none"
  /\ handle = NoHandle
  /\ loc = [i |-> 0]
  /\ trace = <<>>

tpsv_UnitDiagSkip ==
  /\ pc = "unit_diag"
  /\ ~diag_is_unit
  /\ pc' = "trmv"
  /\ UNCHANGED <<driver, arg, ret, handle, mem, loc, trace>>

tpsv_UnitDiagLower ==
  /\ pc = "unit_diag"
  /\ diag_is_unit /\ uplo_is_lower
  /\ loc.i < arg.N
  /\ mem' = [mem EXCEPT !.hA = unit_diag_row(mem.hA, arg.N, loc.i)]
  /\ loc' = [loc EXCEPT !.i = loc.i + 1]
  /\ UNCHANGED <<driver, arg, pc, ret, handle, trace>>

tpsv_UnitDiagUpper ==
  /\ pc = "unit_diag"
  /\ diag_is_unit /\ ~uplo_is_lower
  /\ loc.i < arg.N
  /\ mem' = [mem EXCEPT !.hA = unit_diag_column(mem.hA, arg.N, loc.i)]
  /\ loc' = [loc EXCEPT !.i = loc.i + 1]
  /\ UNCHANGED <<driver, arg, pc, ret, handle, trace>>

tpsv_UnitDiagDone ==
  /\ pc = "unit_diag"
  /\ diag_is_unit
  /\ ~(loc.i < arg.N)
  /\ pc' = "trmv"
  /\ UNCHANGED <<driver, arg, ret, handle, mem, loc, trace>>

NextTpsvUnitDiag ==
  tpsv_UnitDiagSkip \/ tpsv_UnitDiagLower \/ tpsv_UnitDiagUpper \/ tpsv_UnitDiagDone

SpecTpsvUnitDiag == InitTpsvUnitDiag /\ [][NextTpsvUnitDiag]_vars

\* Entry (i, j) lies in the triangle selected by uplo.
InTriangle(i, j) == IF uplo_is_lower THEN j <= i ELSE i <= j

====
